---- MODULE Spec2Model ----
(***************************************************************************)
(* Exchange-rate cache-and-refresh subsystem of ValutaTrade Hub:           *)
(*   - ExchangeRateService (core/usecases.py): the rate resolver           *)
(*   - RatesUpdater.run_update (parser_service/updater.py): the update     *)
(*     coordinator, stepping through its sources one HTTP attempt at a     *)
(*     time                                                                *)
(*   - BaseApiClient._make_request and the two source clients              *)
(*     (parser_service/api_clients.py)                                     *)
(*   - RatesStorage (parser_service/storage.py) over DatabaseManager       *)
(*     (infra/database.py)                                                 *)
(*                                                                         *)
(* Time is in whole seconds.  Rates are in hundredths (1.0 is 100).  A     *)
(* rate key "A_B" is the pair <<"A", "B">>.                                *)
(***************************************************************************)
EXTENDS Integers, Sequences, FiniteSets, TLC

VARIABLES
    now,           \* the wall clock, datetime.datetime.now(), in seconds
    rates_file,    \* the content of data/rates.json
    history_file,  \* the content of data/exchange_rates.json
    rates,         \* ExchangeRateService.rates, the resolver's in-memory cache
    result,        \* how the last resolver call ended
    upd,           \* the frame of RatesUpdater.run_update
    req,           \* the frame of the _make_request call it is in
    report,        \* the update_stats run_update returned
    saved,         \* the last call of save_current_rates made on its own
    locks,         \* DatabaseManager._locks: who holds the lock of each file
    tmp_file,      \* the content of each file's ".tmp" neighbour
    threads,       \* the frame of the store operation each thread is in
    status,        \* what the last call of get_update_status gave
    sched,         \* the ParserScheduler: its thread, its event, its jobs
    quote,         \* the last fetch_rates call made against a market price
    portfolio      \* one user's wallets, portfolios.json, the last wallet call

\* the variables of the threads that use the files directly
storeVars == <<locks, tmp_file, threads>>

\* the variables of the status query, of the scheduler, of a client called
\* on its own and of the wallets
serviceVars == <<status, sched, quote, portfolio>>

vars == <<now, rates_file, history_file, rates, result, upd, req, report,
          saved, storeVars, serviceVars>>

-----------------------------------------------------------------------------
(* Bounds of the model *)

MaxSources == 2

\* the largest balance a deposit is let reach, in units of the currency
MaxBalance == 3

-----------------------------------------------------------------------------
(* Program constants *)

rates_ttl == 300
MAX_RETRIES == 3
RETRY_DELAY == 2

BASE_CURRENCY == "USD"
\* ParserConfig.CRYPTO_CURRENCIES and FIAT_CURRENCIES, one currency of each
CRYPTO_CURRENCIES == {"BTC"}
FIAT_CURRENCIES == {"EUR"}

\* the codes _initialize_currencies registers, those the model uses
currency_registry == {"USD", "EUR", "GBP", "BTC"}

\* RatesUpdater.clients
clients == {"coingecko", "exchangerate"}

-----------------------------------------------------------------------------
(* Values *)

\* an entry's "updated_at": a time, or one of two defects of a stored entry
NoTs == -1       \* the entry has no "updated_at" key
BadTs == -2      \* "updated_at" is not an ISO timestamp

\* an entry without a "source" key, as update_rate writes it
NoSource == "none"

EmptyMap == <<>>

\* the currency codes given to the resolver; "usd" is a lower-case spelling
\* and "XYZ" is not registered
QueryCodes == {"USD", "EUR", "GBP", "usd", "XYZ"}

\* the rates a source may deliver and update_rate may be given
SourceRates == {0, 92}

\* the times at which the resolver is called: the start, and the last second
\* before and the first second at which an entry of the start is stale
TimePoints == {0, rates_ttl - 1, rates_ttl}

\* the times at which a step of a coordinator is taken
UpdateTimes == {0, rates_ttl}

Upper(code) == IF code = "usd" THEN "USD" ELSE code

RateKey(from, to) == <<from, to>>

Has(map, key) == key \in DOMAIN map

Put(map, key, val) ==
    [k \in (DOMAIN map) \cup {key} |-> IF k = key THEN val ELSE map[k]]

\* dict.update(other)
Merge(map, other) ==
    [k \in (DOMAIN map) \cup (DOMAIN other) |->
        IF k \in DOMAIN other THEN other[k] ELSE map[k]]

-----------------------------------------------------------------------------
(* Files *)

MissingFile == [kind |-> "missing", data |-> EmptyMap]
CorruptFile == [kind |-> "corrupt", data |-> EmptyMap]
DictFile(data) == [kind |-> "dict", data |-> data]
ListFile(data) == [kind |-> "list", data |-> data]

Entry(rate, updated_at, source) ==
    [rate |-> rate, updated_at |-> updated_at, source |-> source]

NoEntry == Entry(0, NoTs, NoSource)

\* load_json_data: a missing file and a file that is not JSON both read as []
load_json_data(file) ==
    IF file.kind \in {"missing", "corrupt"}
    THEN [kind |-> "list", data |-> EmptyMap]
    ELSE [kind |-> file.kind, data |-> file.data]

\* save_json_data: makedirs, open(.., 'w'), json.dump.  outcome "ok" writes the
\* file; "fail_before" raises before the file is opened; "fail_partial" raises
\* after open() truncated it, leaving a file that is not JSON
save_json_data(file, data, outcome) ==
    CASE outcome = "ok" -> DictFile(data)
      [] outcome = "fail_before" -> file
      [] OTHER -> CorruptFile

SaveOutcomes == {"ok", "fail_before", "fail_partial"}

-----------------------------------------------------------------------------
(* ExchangeRateService *)

\* _load_rates: a list of dicts is flattened, a dict is taken, else {}
load_rates(file) ==
    LET rates_data == load_json_data(file)
    IN IF rates_data.kind = "dict" THEN rates_data.data ELSE EmptyMap

\* get_currency: raises CurrencyNotFoundError for a code not in the registry
get_currency_ok(code) == Upper(code) \in currency_registry

\* datetime.fromisoformat(rate_data["updated_at"]) succeeds
fromisoformat_ok(updated_at) == updated_at >= 0

\* IsFresh with the age compared by <= : an entry aged exactly TTL is served
IsFreshInclusive(cache, key, t) ==
    /\ Has(cache, key)
    /\ cache[key].updated_at # NoTs
    /\ fromisoformat_ok(cache[key].updated_at)
    /\ t - cache[key].updated_at <= rates_ttl

\* the test of get_rate lines 267-276: the entry is served from the cache
IsFresh(cache, key, t) ==
    /\ Has(cache, key)
    /\ cache[key].updated_at # NoTs
    /\ fromisoformat_ok(cache[key].updated_at)
    /\ t - cache[key].updated_at < rates_ttl

\* the surviving definition of _get_stub_rate (the second one of the class
\* body): the static table, here its pairs over USD, EUR and GBP
stub_rates ==
    (RateKey("USD", "EUR") :> 85) @@ (RateKey("EUR", "USD") :> 118)

get_stub_rate(from, to, t) ==
    IF Has(stub_rates, RateKey(from, to))
    THEN [found |-> TRUE, entry |-> Entry(stub_rates[RateKey(from, to)], t, NoSource)]
    ELSE [found |-> FALSE, entry |-> NoEntry]

\* how a call of the resolver ended: the call, the time of the call, the line
\* it left by (path), and the value returned or the exception raised
Returned(op, from, to, t, path, value) ==
    [op |-> op, from |-> from, to |-> to, at |-> t, path |-> path,
     kind |-> "return", exc |-> "", value |-> value]

Raised(op, from, to, t, path, exc) ==
    [op |-> op, from |-> from, to |-> to, at |-> t, path |-> path,
     kind |-> "raise", exc |-> exc, value |-> NoEntry]

NoResult == Raised("none", "", "", 0, "none", "")

\* get_rate with the test from == to made before the codes are validated
get_rate_identity_first(cache, from_currency, to_currency, t) ==
    LET from == Upper(from_currency)
        to == Upper(to_currency)
        rate_key == RateKey(from, to)
    IN IF from = to
       THEN Returned("get_rate", from_currency, to_currency, t, "identity",
                     Entry(100, t, NoSource))
       ELSE IF ~(get_currency_ok(from_currency) /\ get_currency_ok(to_currency))
       THEN Raised("get_rate", from_currency, to_currency, t, "invalid",
                   "CurrencyNotFoundError")
       ELSE IF IsFresh(cache, rate_key, t)
       THEN Returned("get_rate", from_currency, to_currency, t, "hit",
                     cache[rate_key])
       ELSE Raised("get_rate", from_currency, to_currency, t, "refresh",
                   "AttributeError")

\* get_rate with the codes compared before they are upper-cased
get_rate_raw_compare(cache, from_currency, to_currency, t) ==
    LET from == Upper(from_currency)
        to == Upper(to_currency)
        rate_key == RateKey(from, to)
    IN IF ~(get_currency_ok(from_currency) /\ get_currency_ok(to_currency))
       THEN Raised("get_rate", from_currency, to_currency, t, "invalid",
                   "CurrencyNotFoundError")
       ELSE IF from_currency = to_currency
       THEN Returned("get_rate", from_currency, to_currency, t, "identity",
                     Entry(100, t, NoSource))
       ELSE IF IsFresh(cache, rate_key, t)
       THEN Returned("get_rate", from_currency, to_currency, t, "hit",
                     cache[rate_key])
       ELSE Raised("get_rate", from_currency, to_currency, t, "refresh",
                   "AttributeError")

\* the value of get_rate(from_currency, to_currency) at time t on cache.  Its
\* last line calls self._update_rate, a name the class does not define (both
\* helper methods of the class body are named _get_stub_rate, and the second
\* definition replaces the first): the call raises AttributeError
get_rate(cache, from_currency, to_currency, t) ==
    LET from == Upper(from_currency)
        to == Upper(to_currency)
        rate_key == RateKey(from, to)
    IN IF ~(get_currency_ok(from_currency) /\ get_currency_ok(to_currency))
       THEN Raised("get_rate", from_currency, to_currency, t, "invalid",
                   "CurrencyNotFoundError")
       ELSE IF from = to
       THEN Returned("get_rate", from_currency, to_currency, t, "identity",
                     Entry(100, t, NoSource))
       ELSE IF IsFresh(cache, rate_key, t)
       THEN Returned("get_rate", from_currency, to_currency, t, "hit",
                     cache[rate_key])
       ELSE Raised("get_rate", from_currency, to_currency, t, "refresh",
                   "AttributeError")

\* GetRate saving the cache to the file after every call
GetRateSaving(from_currency, to_currency) ==
    /\ result' = get_rate(rates, from_currency, to_currency, now)
    /\ rates_file' = save_json_data(rates_file, rates, "ok")
    /\ UNCHANGED <<now, history_file, rates, upd, req, report, saved, storeVars, serviceVars>>

\* ExchangeRateService.get_rate: no path of it assigns self.rates or saves
GetRate(from_currency, to_currency) ==
    /\ result' = get_rate(rates, from_currency, to_currency, now)
    /\ UNCHANGED <<now, rates_file, history_file, rates, upd, req, report,
                   saved, storeVars, serviceVars>>

\* ExchangeRateService.update_rate: the entry is assigned, then _save_rates
UpdateRate(from_currency, to_currency, rate, outcome) ==
    LET rate_key == RateKey(Upper(from_currency), Upper(to_currency))
        new_rates == Put(rates, rate_key, Entry(rate, now, NoSource))
    IN /\ rates' = new_rates
       /\ rates_file' = save_json_data(rates_file, new_rates, outcome)
       /\ result' = IF outcome = "ok"
                    THEN Returned("update_rate", from_currency, to_currency, now,
                                  "write", new_rates[rate_key])
                    ELSE Raised("update_rate", from_currency, to_currency, now,
                                "write", "OSError")
       /\ UNCHANGED <<now, history_file, upd, req, report, saved, storeVars, serviceVars>>

\* the clock advances
Tick(t) ==
    /\ t > now
    /\ now' = t
    /\ UNCHANGED <<rates_file, history_file, rates, result, upd, req, report,
                   saved, storeVars, serviceVars>>

-----------------------------------------------------------------------------
(* DatabaseManager *)

\* read_data: [] for a missing file, DatabaseError for a file that is not JSON
read_data(file) ==
    CASE file.kind = "missing" -> [ok |-> TRUE, kind |-> "list", data |-> EmptyMap]
      [] file.kind = "corrupt" -> [ok |-> FALSE, kind |-> "none", data |-> EmptyMap]
      [] OTHER -> [ok |-> TRUE, kind |-> file.kind, data |-> file.data]

\* write_data: temporary file, then os.replace; on a failure the temporary
\* file is removed and the file keeps its content
WriteOutcomes == {"ok", "fail"}

write_data(file, new_file, outcome) ==
    IF outcome = "ok" THEN new_file ELSE file

-----------------------------------------------------------------------------
(* RatesStorage *)

\* the order in which the clients insert their keys into the dict they return
KeyOrder ==
    <<RateKey("BTC", BASE_CURRENCY), RateKey("EUR", BASE_CURRENCY),
      RateKey(BASE_CURRENCY, BASE_CURRENCY)>>

\* the keys of a fetched dict, in insertion order
RECURSIVE KeysFrom(_, _)
KeysFrom(fetched, i) ==
    IF i > Len(KeyOrder) THEN <<>>
    ELSE IF Has(fetched, KeyOrder[i])
         THEN <<KeyOrder[i]>> \o KeysFrom(fetched, i + 1)
         ELSE KeysFrom(fetched, i + 1)

Keys(fetched) == KeysFrom(fetched, 1)

\* the test of save_current_rates lines 24-26
\* save_current_rates rewriting every entry it is given
MustRewriteAlways(existing_rates, rate_key, rate_value, source) == TRUE

\* the test of save_current_rates: the pair is new, or stored with another
\* source, or stored with another rate
MustRewrite(existing_rates, rate_key, rate_value, source) ==
    \/ ~Has(existing_rates, rate_key)
    \/ existing_rates[rate_key].source # source
    \/ existing_rates[rate_key].rate # rate_value

\* save_current_rates(rates, source) at time t: what it raises, the file it
\* leaves, the count it returns, and whether it called db.write_data
save_current_rates(file, fetched, source, t, outcome) ==
    LET read == read_data(file)
        existing_rates == IF read.ok /\ read.kind = "dict" THEN read.data ELSE EmptyMap
        touched == {k \in DOMAIN fetched :
                       MustRewrite(existing_rates, k, fetched[k], source)}
        merged == [k \in (DOMAIN existing_rates) \cup touched |->
                      IF k \in touched THEN Entry(fetched[k], t, source)
                      ELSE existing_rates[k]]
        updated_count == Cardinality(touched)
    IN IF ~read.ok
       THEN [exc |-> "DatabaseError", file |-> file, count |-> 0, wrote |-> FALSE]
       ELSE IF updated_count = 0
       THEN [exc |-> "", file |-> file, count |-> 0, wrote |-> FALSE]
       ELSE IF outcome # "ok"
       THEN [exc |-> "DatabaseError",
             file |-> write_data(file, DictFile(merged), outcome), count |-> 0,
             wrote |-> TRUE]
       ELSE [exc |-> "",
             file |-> write_data(file, DictFile(merged), outcome),
             count |-> updated_count, wrote |-> TRUE]

\* what is kept of a call of save_current_rates: its arguments, the time, and
\* what save_current_rates gave for them
NoSaved ==
    [called |-> FALSE, rates |-> EmptyMap, source |-> NoSource, at |-> 0,
     count |-> 0, exc |-> "", wrote |-> FALSE]

SavedCall(fetched, source, t, c) ==
    [called |-> TRUE, rates |-> fetched, source |-> source, at |-> t,
     count |-> c.count, exc |-> c.exc, wrote |-> c.wrote]

\* record_id: the key and the UTC time to the second
RecordId(rate_key, t) == <<rate_key[1], rate_key[2], t>>

HistoryRecord(rate_key, rate_value, source, t) ==
    [id |-> RecordId(rate_key, t), from_currency |-> rate_key[1],
     to_currency |-> rate_key[2], rate |-> rate_value, timestamp |-> t,
     source |-> source, created_at |-> t]

\* the duplicate test of line 68 finding no record
HasIdNever(historical_data, id) == FALSE

\* line 68: a record of the list has this id
HasId(historical_data, id) ==
    \E j \in 1..Len(historical_data) : historical_data[j].id = id

\* the loop of save_historical_record lines 52-70 over the keys from i on
RECURSIVE AppendRecords(_, _, _, _, _, _)
AppendRecords(historical_data, keys, i, fetched, source, t) ==
    IF i > Len(keys) THEN historical_data
    ELSE LET record == HistoryRecord(keys[i], fetched[keys[i]], source, t)
         IN AppendRecords(
                IF HasId(historical_data, record.id) THEN historical_data
                ELSE Append(historical_data, record),
                keys, i + 1, fetched, source, t)

save_historical_record(file, fetched, source, t, outcome) ==
    LET read == read_data(file)
        historical_data == IF read.ok /\ read.kind = "list" THEN read.data ELSE <<>>
        appended == AppendRecords(historical_data, Keys(fetched), 1, fetched, source, t)
        saved_count == Len(appended) - Len(historical_data)
    IN IF ~read.ok
       THEN [exc |-> "DatabaseError", file |-> file, count |-> 0]
       ELSE IF saved_count = 0
       THEN [exc |-> "", file |-> file, count |-> 0]
       ELSE IF outcome # "ok"
       THEN [exc |-> "DatabaseError",
             file |-> write_data(file, ListFile(appended), outcome), count |-> 0]
       ELSE [exc |-> "",
             file |-> write_data(file, ListFile(appended), outcome),
             count |-> saved_count]

-----------------------------------------------------------------------------
(* BaseApiClient and the two source clients *)

\* what one requests.get of _make_request can end in
RespKinds == {"ok", "timeout", "http429", "http_error", "network", "bad_json"}

\* a parsed response body that is a JSON object: for CoinGecko vals[c] is
\* data[id of c]["usd"], for ExchangeRate-API success is result == "success"
\* and vals is conversion_rates
Body(success, vals) == [object |-> TRUE, success |-> success, vals |-> vals]

NoBody == Body(FALSE, EmptyMap)

\* a body that is JSON and no object: response.json() returns None for "null"
NullBody == [object |-> FALSE, success |-> FALSE, vals |-> EmptyMap]

ClientCurrencies(source_name) ==
    IF source_name = "coingecko" THEN CRYPTO_CURRENCIES ELSE FIAT_CURRENCIES

PartialMaps(S, V) == UNION {[D -> V] : D \in SUBSET S}

\* an ExchangeRate-API body that reports an error carries no rates
Bodies(source_name) ==
    {Body(TRUE, vals) :
        vals \in PartialMaps(ClientCurrencies(source_name), SourceRates)}
    \cup (IF source_name = "coingecko" THEN {} ELSE {Body(FALSE, EmptyMap)})
    \cup {NullBody}

Responses(source_name) ==
    {[kind |-> "ok", body |-> b] : b \in Bodies(source_name)}
    \cup {[kind |-> k, body |-> NoBody] : k \in RespKinds \ {"ok"}}

\* the except clause of _make_request that handles a body that is not JSON:
\* response.json() raises a ValueError, which in requests 2.27 and later is
\* also a RequestException, and the RequestException clause comes first
JsonErrorHandlers == {"ValueError", "RequestException"}

\* make_request_pass sleeping RETRY_DELAY, not twice it, after an HTTP 429
make_request_pass_same_delay(attempt, resp, json_handler) ==
    LET last == ~(attempt < MAX_RETRIES - 1)
        retry(wait, reason) ==
            IF last THEN [next |-> "raise", wait |-> 0, reason |-> reason]
            ELSE [next |-> "continue", wait |-> wait, reason |-> reason]
    IN CASE resp.kind = "ok" -> [next |-> "return", wait |-> 0, reason |-> ""]
         [] resp.kind = "http_error" ->
                [next |-> "raise", wait |-> 0, reason |-> "HTTP error"]
         [] resp.kind = "bad_json" /\ json_handler = "ValueError" ->
                [next |-> "raise", wait |-> 0, reason |-> "Invalid JSON response"]
         [] OTHER -> retry(RETRY_DELAY, "Request failed")

\* make_request_pass with the last pass taken to be attempt == MAX_RETRIES
make_request_pass_one_more(attempt, resp, json_handler) ==
    LET last == ~(attempt < MAX_RETRIES)
        retry(wait, reason) ==
            IF last THEN [next |-> "raise", wait |-> 0, reason |-> reason]
            ELSE [next |-> "continue", wait |-> wait, reason |-> reason]
    IN CASE resp.kind = "ok" -> [next |-> "return", wait |-> 0, reason |-> ""]
         [] resp.kind = "http_error" ->
                [next |-> "raise", wait |-> 0, reason |-> "HTTP error"]
         [] resp.kind = "http429" -> retry(RETRY_DELAY * 2, "HTTP 429")
         [] OTHER -> retry(RETRY_DELAY, "Request timeout")

\* one pass of the for loop of _make_request: attempt is the loop variable
\* (0-based), resp what requests.get ended in.  next is "return" (the JSON
\* body), "continue" (after sleeping wait seconds) or "raise"
make_request_pass(attempt, resp, json_handler) ==
    LET last == ~(attempt < MAX_RETRIES - 1)
        retry(wait, reason) ==
            IF last THEN [next |-> "raise", wait |-> 0, reason |-> reason]
            ELSE [next |-> "continue", wait |-> wait, reason |-> reason]
    IN CASE resp.kind = "ok" -> [next |-> "return", wait |-> 0, reason |-> ""]
         [] resp.kind = "timeout" -> retry(RETRY_DELAY, "Request timeout")
         [] resp.kind = "http429" -> retry(RETRY_DELAY * 2, "HTTP 429")
         [] resp.kind = "http_error" ->
                [next |-> "raise", wait |-> 0, reason |-> "HTTP error"]
         [] resp.kind = "network" -> retry(RETRY_DELAY, "Network error")
         [] OTHER ->
                IF json_handler = "RequestException"
                THEN retry(RETRY_DELAY, "Network error")
                ELSE [next |-> "raise", wait |-> 0, reason |-> "Invalid JSON response"]

\* CoinGeckoClient.fetch_rates after _make_request returned body
coingecko_rates(body) ==
    [k \in {RateKey(c, BASE_CURRENCY) :
               c \in CRYPTO_CURRENCIES \cap DOMAIN body.vals} |->
        body.vals[k[1]]]

\* ExchangeRateApiClient.fetch_rates after _make_request returned body
exchangerate_rates(body) ==
    [k \in {RateKey(c, BASE_CURRENCY) :
               c \in FIAT_CURRENCIES \cap DOMAIN body.vals}
           \cup {RateKey(BASE_CURRENCY, BASE_CURRENCY)} |->
        IF k = RateKey(BASE_CURRENCY, BASE_CURRENCY) THEN 100
        ELSE body.vals[k[1]]]

\* fetch_rates after _make_request returned body: the dict, ApiRequestError,
\* or what the use of a body that is no object raises: "crypto_id in data"
\* a TypeError, "data.get" an AttributeError
fetch_rates(source_name, body) ==
    IF ~body.object
    THEN [exc |-> IF source_name = "coingecko" THEN "TypeError" ELSE "AttributeError",
          rates |-> EmptyMap]
    ELSE IF source_name = "coingecko"
    THEN [exc |-> "", rates |-> coingecko_rates(body)]
    ELSE IF ~body.success
         THEN [exc |-> "ApiRequestError", rates |-> EmptyMap]
         ELSE [exc |-> "", rates |-> exchangerate_rates(body)]

\* the prices a market may give one unit of a currency, in hundredths of the
\* base currency: those whose inverse is a whole number of hundredths
MarketPrices == {20, 25, 40, 50, 80, 125, 200, 250, 400, 500}

\* the price of one unit of the base currency in a currency whose unit costs
\* p, in hundredths
Inverse(p) == 10000 \div p

\* the body each API returns when price[c] is what one unit of c costs in the
\* base currency.  CoinGecko is asked for ids=<c> and vs_currencies=<base>
\* and answers with the price of c in the base currency; ExchangeRate-API is
\* asked for /latest/<base> and answers with conversion_rates[c], the
\* amount of c one unit of the base currency buys
ApiBody(source_name, price) ==
    IF source_name = "coingecko"
    THEN Body(TRUE, [c \in CRYPTO_CURRENCIES |-> price[c]])
    ELSE Body(TRUE, [c \in FIAT_CURRENCIES |-> Inverse(price[c])])

\* no client was called on its own
NoQuote ==
    [called |-> FALSE, source |-> NoSource, price |-> EmptyMap,
     rates |-> EmptyMap]

\* client.fetch_rates() of the client source_name while the market has the
\* prices price
FetchRates(source_name, price) ==
    /\ quote' = [called |-> TRUE, source |-> source_name, price |-> price,
                 rates |-> fetch_rates(source_name,
                                       ApiBody(source_name, price)).rates]
    /\ UNCHANGED <<now, rates_file, history_file, rates, result, upd, req,
                   report, saved, storeVars, status, sched, portfolio>>

-----------------------------------------------------------------------------
(* RatesUpdater.run_update *)

SourceNames == clients \cup {"unknown_source"}

\* the lists of source names a run may be asked for; sources=None is the list
\* of all clients
SourceLists == UNION {[1..n -> SourceNames] : n \in 0..MaxSources}

\* the unknown-source string in the form of the other error strings
UnknownSourceMsgLikeOthers(source_name) == <<source_name, ": ", "Unknown source">>

\* the error strings of run_update, as the pieces their f-strings join; of
\* str(e) the class of the exception is kept, and for a DatabaseError the name
\* of the file its message gives
UnknownSourceMsg(source_name) == <<"Unknown source: ", source_name>>
ApiErrorMsg(source_name) == <<source_name, ": ", "ApiRequestError">>
UnexpectedMsg(source_name, exc, filename) ==
    <<source_name, ": ", "Unexpected error - ", exc, filename>>

IdleFrame ==
    [pc |-> "idle", sources |-> <<>>, i |-> 1, all_rates |-> EmptyMap,
     total_rates |-> 0, updated_rates |-> 0, historical_records |-> 0,
     errors |-> <<>>, sources_processed |-> <<>>]

\* no _make_request call is in progress, and none has just ended
NoRequest == [calls |-> 0, wait |-> 0, last |-> "none", ended |-> "none"]

NoReport ==
    [returned |-> FALSE, total_rates |-> 0, updated_rates |-> 0,
     historical_records |-> 0, errors |-> <<>>, sources_processed |-> <<>>,
     success |-> FALSE, updated_at |-> 0, sources_count |-> 0]

\* update_stats with success set when some source was processed
UpdateStatsAnyProcessed(u, t) ==
    [returned |-> TRUE, total_rates |-> u.total_rates,
     updated_rates |-> u.updated_rates,
     historical_records |-> u.historical_records, errors |-> u.errors,
     sources_processed |-> u.sources_processed,
     success |-> (Len(u.sources_processed) > 0), updated_at |-> t,
     sources_count |-> Len(u.sources_processed)]

\* run_update lines 79-93: the metadata added to update_stats
UpdateStats(u, t) ==
    [returned |-> TRUE, total_rates |-> u.total_rates,
     updated_rates |-> u.updated_rates,
     historical_records |-> u.historical_records, errors |-> u.errors,
     sources_processed |-> u.sources_processed,
     success |-> (Len(u.errors) = 0), updated_at |-> t,
     sources_count |-> Len(u.sources_processed)]

\* run_update is called: lines 25-39
RunUpdate(sources) ==
    /\ upd.pc = "idle"
    /\ upd' = [IdleFrame EXCEPT !.pc = "loop", !.sources = sources]
    /\ req' = NoRequest
    /\ report' = NoReport
    /\ UNCHANGED <<now, rates_file, history_file, rates, result, saved, storeVars, serviceVars>>

\* lines 42-46: a name that is no client
UnknownSource ==
    /\ upd.pc = "loop"
    /\ upd.i <= Len(upd.sources)
    /\ upd.sources[upd.i] \notin clients
    /\ upd' = [upd EXCEPT !.errors = Append(@, UnknownSourceMsg(upd.sources[upd.i])),
                          !.i = @ + 1]
    /\ req' = NoRequest
    /\ UNCHANGED <<now, rates_file, history_file, rates, result, report,
                   saved, storeVars, serviceVars>>

\* lines 48-52: client.fetch_rates() enters _make_request
BeginFetch ==
    /\ upd.pc = "loop"
    /\ upd.i <= Len(upd.sources)
    /\ upd.sources[upd.i] \in clients
    /\ upd' = [upd EXCEPT !.pc = "request"]
    /\ req' = [NoRequest EXCEPT !.ended = "pending"]
    /\ UNCHANGED <<now, rates_file, history_file, rates, result, report,
                   saved, storeVars, serviceVars>>

\* a failed source ending the whole run
SourceFailedAborts(u, msg) ==
    [u EXCEPT !.pc = "loop", !.i = Len(u.sources) + 1, !.errors = Append(@, msg)]

\* a failed source leaving no error string
SourceFailedSilently(u, msg) == [u EXCEPT !.pc = "loop", !.i = @ + 1]

\* the source's pass of the loop ends with an error string
SourceFailed(u, msg) ==
    [u EXCEPT !.pc = "loop", !.i = @ + 1, !.errors = Append(@, msg)]

\* lines 53-65 once fetch_rates has returned fetched: the cache write, the
\* history write and the counts
StoreFetched(u, source_name, fetched, t, rfile, hfile, w1, w2) ==
    LET merged == [u EXCEPT !.all_rates = Merge(@, fetched)]
        c == save_current_rates(rfile, fetched, source_name, t, w1)
        h == save_historical_record(hfile, fetched, source_name, t, w2)
    IN IF c.exc # ""
       THEN [upd |-> SourceFailed(merged, UnexpectedMsg(source_name, c.exc, "rates.json")),
             rates_file |-> c.file, history_file |-> hfile]
       ELSE IF h.exc # ""
       THEN [upd |-> SourceFailed(merged, UnexpectedMsg(source_name, h.exc, "exchange_rates.json")),
             rates_file |-> c.file, history_file |-> h.file]
       ELSE [upd |-> [merged EXCEPT
                         !.pc = "loop", !.i = @ + 1,
                         !.total_rates = @ + Cardinality(DOMAIN fetched),
                         !.updated_rates = @ + c.count,
                         !.historical_records = @ + h.count,
                         !.sources_processed = Append(@, source_name)],
             rates_file |-> c.file, history_file |-> h.file]

\* one requests.get of _make_request and what follows it: another pass after
\* a sleep, or the end of the source's pass of the loop of run_update
Attempt(resp, json_handler, w1, w2) ==
    /\ upd.pc = "request"
    /\ LET source_name == upd.sources[upd.i]
           p == make_request_pass(req.calls, resp, json_handler)
           called == [req EXCEPT !.calls = @ + 1, !.last = resp.kind,
                                 !.wait = p.wait]
           f == fetch_rates(source_name, resp.body)
           stored == StoreFetched(upd, source_name, f.rates, now,
                                  rates_file, history_file, w1, w2)
       IN /\ resp \in Responses(source_name)
          /\ CASE p.next = "continue" ->
                    /\ req' = called
                    /\ UNCHANGED <<upd, rates_file, history_file, saved>>
               [] p.next = "raise" ->
                    /\ req' = [called EXCEPT !.ended = "raised"]
                    /\ upd' = SourceFailed(upd, ApiErrorMsg(source_name))
                    /\ UNCHANGED <<rates_file, history_file, saved>>
               [] OTHER ->
                    /\ req' = [called EXCEPT !.ended = "returned"]
                    /\ IF f.exc # ""
                       THEN /\ upd' = SourceFailed(upd,
                                        IF f.exc = "ApiRequestError"
                                        THEN ApiErrorMsg(source_name)
                                        ELSE UnexpectedMsg(source_name, f.exc, ""))
                            /\ UNCHANGED <<rates_file, history_file, saved>>
                       ELSE /\ upd' = stored.upd
                            /\ rates_file' = stored.rates_file
                            /\ history_file' = stored.history_file
                            /\ UNCHANGED saved
    /\ UNCHANGED <<now, rates, result, report, storeVars, serviceVars>>

\* lines 79-93: the loop is over, update_stats is returned
Finish ==
    /\ upd.pc = "loop"
    /\ upd.i > Len(upd.sources)
    /\ upd' = [upd EXCEPT !.pc = "returned"]
    /\ req' = NoRequest
    /\ report' = UpdateStats(upd, now)
    /\ UNCHANGED <<now, rates_file, history_file, rates, result, saved, storeVars, serviceVars>>

-----------------------------------------------------------------------------
(* RatesUpdater.get_update_status *)

RATES_TTL == 300

\* RatesStorage.load_current_rates
load_current_rates(file) ==
    LET read == read_data(file)
    IN IF ~read.ok THEN [exc |-> "DatabaseError", data |-> EmptyMap]
       ELSE IF read.kind # "dict" THEN [exc |-> "", data |-> EmptyMap]
       ELSE [exc |-> "", data |-> read.data]

\* RatesStorage.get_rate_freshness at time t, where the file can be read
get_rate_freshness(file, rate_key, t) ==
    LET rates_data == load_current_rates(file).data
    IN IF ~Has(rates_data, rate_key) THEN -1
       ELSE IF rates_data[rate_key].updated_at = NoTs THEN -1
       ELSE IF ~fromisoformat_ok(rates_data[rate_key].updated_at) THEN -1
       ELSE t - rates_data[rate_key].updated_at

\* no call of get_update_status was made; of a call are kept the time, the
\* key it sampled, the exception it raised or the record it returned
NoStatus ==
    [called |-> FALSE, exc |-> "", fields |-> {}, status |-> "",
     total_rates |-> 0, sources |-> {}, at |-> 0, sample |-> RateKey("", "")]

\* rate.get('source', 'unknown')
SourceOrUnknown(entry) == IF entry.source = NoSource THEN "unknown" ELSE entry.source

\* lines 99-103: the record returned when there are no rates
status_empty(t) ==
    [called |-> TRUE, exc |-> "", fields |-> {"status", "message"},
     status |-> "empty", total_rates |-> 0, sources |-> {}, at |-> t,
     sample |-> RateKey("", "")]

\* get_update_status at time t; sample_rate is the first key of the file,
\* whose order the model does not keep
get_update_status(file, sample_rate, t) ==
    LET loaded == load_current_rates(file)
        rates_data == loaded.data
        freshness == get_rate_freshness(file, sample_rate, t)
    IN IF loaded.exc # ""
       THEN [NoStatus EXCEPT !.called = TRUE, !.exc = loaded.exc, !.at = t]
       ELSE IF DOMAIN rates_data = {} THEN status_empty(t)
       ELSE [called |-> TRUE, exc |-> "",
             fields |-> {"status", "total_rates", "rates_ttl", "sources"},
             status |-> IF freshness < 0 THEN "stale"
                        ELSE IF freshness > RATES_TTL THEN "outdated"
                        ELSE "fresh",
             total_rates |-> Cardinality(DOMAIN rates_data),
             sources |-> {SourceOrUnknown(rates_data[k]) : k \in DOMAIN rates_data},
             at |-> t, sample |-> sample_rate]

\* the keys one of which is the first of the file
SampleRates(file) ==
    IF file.kind = "dict" /\ DOMAIN file.data # {} THEN DOMAIN file.data
    ELSE {RateKey("", "")}

\* a call of get_update_status
GetUpdateStatus(sample_rate) ==
    /\ sample_rate \in SampleRates(rates_file)
    /\ status' = get_update_status(rates_file, sample_rate, now)
    /\ UNCHANGED <<now, rates_file, history_file, rates, result, upd, req,
                   report, saved, storeVars, sched, quote, portfolio>>

-----------------------------------------------------------------------------
(* ParserScheduler *)

\* a ParserScheduler after __init__, and schedule's list of jobs empty.
\* thread is self.scheduler_thread (none, alive, dead), loops the number of
\* live threads that run run_scheduler, jobs the length of schedule's list,
\* pc the line the loop thread is at, todo the due jobs run_pending has yet
\* to run, due whether the job's interval has elapsed, caller the line the
\* calling thread is at inside stop_scheduler.  Kept for the record: last is
\* the message the last start or stop logged, ran the updates started since
\* the interval elapsed, failed whether a scheduled update has raised, cut
\* the number of sources the running update had processed when the event
\* was set (-1 when none was running), join how join ended
NoScheduler ==
    [thread |-> "none", loops |-> 0, jobs |-> 0, stop_event |-> FALSE,
     pc |-> "none", todo |-> 0, due |-> FALSE, caller |-> "idle",
     last |-> "none", ran |-> 0, failed |-> FALSE, cut |-> -1,
     join |-> "none"]

\* what scheduled_update calls: run_update() with sources=None
AllClients == <<"coingecko", "exchangerate">>

\* what no step of the scheduler changes but the frame of run_update
schedFrame == <<now, rates_file, history_file, rates, result, report, saved,
                storeVars, status, quote, portfolio>>

\* the test of start_scheduler with no thread ever found alive
never_running(s) == FALSE

\* lines 38 and 66: self.scheduler_thread and self.scheduler_thread.is_alive()
already_running(s) == s.thread = "alive"

\* start_scheduler: a no-op while the thread is alive; else the job is
\* registered, the event cleared and the thread started
StartScheduler ==
    /\ sched.caller = "idle"
    /\ sched' = IF already_running(sched)
                THEN [sched EXCEPT !.last = "already_running"]
                ELSE [sched EXCEPT !.jobs = @ + 1, !.stop_event = FALSE,
                                   !.thread = "alive", !.loops = @ + 1,
                                   !.pc = "check", !.todo = 0,
                                   !.last = "started", !.cut = -1,
                                   !.join = "none"]
    /\ UNCHANGED <<schedFrame, upd, req>>

\* stop_scheduler lines 66-68: the event is set, join begins
StopBegin ==
    /\ sched.caller = "idle"
    /\ sched' = IF sched.thread = "alive"
                THEN [sched EXCEPT !.stop_event = TRUE, !.caller = "joining",
                                   !.cut = IF sched.pc = "job"
                                           THEN Len(upd.sources_processed)
                                           ELSE -1]
                ELSE [sched EXCEPT !.last = "not_running"]
    /\ UNCHANGED <<schedFrame, upd, req>>

\* lines 69-71: join returns because the thread has ended, or because the 5
\* seconds are over while it is still alive, which takes a thread that is
\* inside an update or in the 10 seconds' sleep of line 56: from anywhere
\* else it is back at line 50 within the second; then schedule.clear()
StopJoin(outcome) ==
    /\ sched.caller = "joining"
    /\ outcome = "returned" => sched.thread # "alive"
    /\ outcome = "timeout" => sched.thread = "alive" /\ sched.pc \in {"job", "pause"}
    /\ sched' = [sched EXCEPT !.jobs = 0, !.due = FALSE, !.caller = "idle",
                              !.last = "stopped", !.join = outcome]
    /\ UNCHANGED <<schedFrame, upd, req>>

\* the event seen set wherever the loop thread is
observes_stop_anywhere(s) == s.stop_event

\* line 50: the event is tested at the head of the loop and nowhere else
observes_stop(s) == s.pc = "check" /\ s.stop_event

\* line 50 with the event set: run_scheduler returns and the thread ends
LoopExit ==
    /\ sched.thread = "alive"
    /\ observes_stop(sched)
    /\ sched' = [sched EXCEPT !.thread = "dead", !.loops = @ - 1,
                              !.pc = "exited", !.todo = 0]
    /\ UNCHANGED <<schedFrame, upd, req>>

\* line 50 with the event clear
LoopEnter ==
    /\ sched.pc = "check"
    /\ ~sched.stop_event
    /\ sched' = [sched EXCEPT !.pc = "pending"]
    /\ UNCHANGED <<schedFrame, upd, req>>

\* line 52: schedule.run_pending() runs every registered job that is due,
\* one after the other, or raises
RunPending(outcome) ==
    /\ sched.pc = "pending"
    /\ sched' = IF outcome # "ok" THEN [sched EXCEPT !.pc = "pause"]
                ELSE IF sched.due /\ sched.jobs > 0
                THEN [sched EXCEPT !.pc = "job", !.todo = sched.jobs,
                                   !.due = FALSE, !.ran = @ + 1]
                ELSE [sched EXCEPT !.pc = "sleep"]
    /\ UNCHANGED <<schedFrame, upd, req>>

\* a job has ended: run_pending starts the next due job or returns
job_done(s) ==
    IF s.todo > 1 THEN [s EXCEPT !.todo = @ - 1, !.ran = @ + 1]
    ELSE [s EXCEPT !.todo = 0, !.pc = "sleep"]

\* an exception of the update ending the thread
scheduled_update_uncaught(s) ==
    [s EXCEPT !.failed = TRUE, !.thread = "dead", !.loops = @ - 1,
              !.pc = "exited", !.todo = 0]

\* scheduled_update lines 33-34: the exception is logged and the job returns
scheduled_update_except(s) == job_done([s EXCEPT !.failed = TRUE])

\* scheduled_update line 24: run_update is entered
JobRunUpdate ==
    /\ sched.pc = "job"
    /\ RunUpdate(AllClients)

\* lines 26-31: run_update has returned its report
JobReturn ==
    /\ sched.pc = "job"
    /\ upd.pc = "returned"
    /\ upd' = IdleFrame
    /\ sched' = job_done(sched)
    /\ UNCHANGED <<schedFrame, req>>

\* run_update raises outside the try of a source, between two sources
JobRaise ==
    /\ sched.pc = "job"
    /\ upd.pc = "loop"
    /\ upd' = IdleFrame
    /\ req' = NoRequest
    /\ sched' = scheduled_update_except(sched)
    /\ UNCHANGED schedFrame

\* the steps of run_update inside the job, with the responses that decide
\* the path: a full body, or an HTTP error
JobResponses(source_name) ==
    {[kind |-> "ok",
      body |-> Body(TRUE, [c \in ClientCurrencies(source_name) |-> 92])],
     [kind |-> "http_error", body |-> NoBody]}

JobStep ==
    /\ sched.pc = "job"
    /\ \/ BeginFetch
       \/ /\ upd.pc = "request"
          /\ \E resp \in JobResponses(upd.sources[upd.i]) :
                Attempt(resp, "RequestException", "ok", "ok")
       \/ Finish

\* lines 53 and 56: time.sleep(1), or time.sleep(10) after an error
LoopSleep ==
    /\ sched.pc \in {"sleep", "pause"}
    /\ sched' = [sched EXCEPT !.pc = "check"]
    /\ UNCHANGED <<schedFrame, upd, req>>

\* UPDATE_INTERVAL minutes have passed since the job was registered or last
\* run: it is due
IntervalElapsed ==
    /\ sched.jobs > 0
    /\ ~sched.due
    /\ sched.pc # "job"
    /\ sched' = [sched EXCEPT !.due = TRUE, !.ran = 0]
    /\ UNCHANGED <<schedFrame, upd, req>>

-----------------------------------------------------------------------------
(* Wallet and PortfolioManager *)

\* the currencies of the wallets of one user
WalletCodes == {"USD", "BTC"}

\* an amount that is no int and no float, such as the str "2"
NotNumber == -99

\* the amounts given to deposit and withdraw
Amounts == {-1, 0, 1, 2, NotNumber}

\* isinstance(amount, (int, float))
IsNumber(amount) == amount # NotNumber

\* the balance setter, lines 115-121: what it raises and the balance it leaves
set_balance(balance, value) ==
    IF value < 0 THEN [exc |-> "ValueError", balance |-> balance]
    ELSE [exc |-> "", balance |-> value]

\* Wallet.deposit, lines 123-128
deposit(balance, amount) ==
    IF ~IsNumber(amount) THEN [exc |-> "ValueError", balance |-> balance]
    ELSE IF amount <= 0 THEN [exc |-> "ValueError", balance |-> balance]
    ELSE set_balance(balance, balance + amount)

\* Wallet.withdraw with the comparison with the balance left out
withdraw_unchecked(balance, amount) ==
    IF ~IsNumber(amount) THEN [exc |-> "ValueError", balance |-> balance]
    ELSE IF amount <= 0 THEN [exc |-> "ValueError", balance |-> balance]
    ELSE set_balance(balance, balance - amount)

\* Wallet.withdraw, lines 130-143
withdraw(balance, amount) ==
    IF ~IsNumber(amount) THEN [exc |-> "ValueError", balance |-> balance]
    ELSE IF amount <= 0 THEN [exc |-> "ValueError", balance |-> balance]
    ELSE IF amount > balance
    THEN [exc |-> "InsufficientFundsError", balance |-> balance]
    ELSE set_balance(balance, balance - amount)

\* _save_portfolios: the wallets are written to portfolios.json with
\* save_json_data
save_portfolios(file, wallets, outcome) ==
    IF outcome = "ok" THEN ListFile(wallets)
    ELSE save_json_data(file, wallets, outcome)

\* a new user: no wallet, no file; n counts the calls made (0 or 1, it flips)
NoPortfolio ==
    [wallets |-> EmptyMap, file |-> MissingFile, op |-> "none", code |-> "",
     amount |-> 0, exc |-> "", had |-> FALSE, n |-> 0]

\* deposit_to_wallet: a missing wallet is added with balance 0 and the
\* portfolios saved; then Wallet.deposit, and the portfolios saved again
DepositToWallet(code, amount, outcome) ==
    LET had == Has(portfolio.wallets, code)
        added == IF had THEN portfolio.wallets ELSE Put(portfolio.wallets, code, 0)
        d == deposit(added[code], amount)
        wallets == Put(added, code, d.balance)
        failed_add == ~had /\ outcome # "ok"
    IN /\ IsNumber(amount) => added[code] + amount <= MaxBalance
       /\ portfolio' =
             [wallets |-> wallets,
              file |-> IF failed_add \/ d.exc = ""
                       THEN save_portfolios(portfolio.file, wallets, outcome)
                       ELSE IF had THEN portfolio.file
                       ELSE save_portfolios(portfolio.file, added, outcome),
              op |-> "deposit", code |-> code, amount |-> amount,
              exc |-> IF failed_add THEN "OSError"
                      ELSE IF d.exc # "" THEN d.exc
                      ELSE IF outcome # "ok" THEN "OSError" ELSE "",
              had |-> had, n |-> 1 - portfolio.n]
       /\ UNCHANGED <<now, rates_file, history_file, rates, result, upd, req,
                      report, saved, storeVars, status, sched, quote>>

\* withdraw_from_wallet: False for a missing wallet; else Wallet.withdraw,
\* and the portfolios saved when it returned
WithdrawFromWallet(code, amount, outcome) ==
    LET had == Has(portfolio.wallets, code)
        w == withdraw(portfolio.wallets[code], amount)
    IN /\ portfolio' =
             IF ~had
             THEN [portfolio EXCEPT !.op = "withdraw", !.code = code,
                                    !.amount = amount, !.exc = "",
                                    !.had = FALSE, !.n = 1 - @]
             ELSE [wallets |-> Put(portfolio.wallets, code, w.balance),
                   file |-> IF w.exc = ""
                            THEN save_portfolios(portfolio.file,
                                    Put(portfolio.wallets, code, w.balance),
                                    outcome)
                            ELSE portfolio.file,
                   op |-> "withdraw", code |-> code, amount |-> amount,
                   exc |-> IF w.exc # "" THEN w.exc
                           ELSE IF outcome # "ok" THEN "OSError" ELSE "",
                   had |-> TRUE, n |-> 1 - portfolio.n]
       /\ UNCHANGED <<now, rates_file, history_file, rates, result, upd, req,
                      report, saved, storeVars, status, sched, quote>>

-----------------------------------------------------------------------------
(* The threads that use the files: DatabaseManager's methods one step at a   *)
(* time, and load_json_data / save_json_data, which take no lock             *)

\* the two files of the store
StoreFiles == {"rates.json", "exchange_rates.json"}

\* the scheduler's background thread, and the thread of the commands
Threads == {"scheduler", "foreground"}

\* a threading.Lock that no thread holds
Free == "free"

\* the ".tmp" file does not exist
NoTmp == MissingFile

\* what a writer of each file writes
WrittenData(f) ==
    IF f = "rates.json"
    THEN DictFile(RateKey("EUR", BASE_CURRENCY) :> Entry(0, 0, "exchangerate"))
    ELSE ListFile(<<HistoryRecord(RateKey("EUR", BASE_CURRENCY), 0, "exchangerate", 0)>>)

\* op is the function the thread called, inner the method of DatabaseManager
\* that atomic_update is calling, saw what the thread read from the disk;
\* rates, source and at are the arguments and the clock reading of a call of
\* save_historical_record, count what it returned
IdleThread ==
    [op |-> "none", inner |-> "", file |-> "", pc |-> "idle",
     data |-> MissingFile, saw |-> MissingFile, exc |-> "",
     rates |-> EmptyMap, source |-> NoSource, at |-> 0, count |-> 0]

\* the method of DatabaseManager whose body the thread is in
Method(fr) == IF fr.inner # "" THEN fr.inner ELSE fr.op

FileOf(f) == IF f = "rates.json" THEN rates_file ELSE history_file

SetFile(f, content) ==
    IF f = "rates.json"
    THEN rates_file' = content /\ UNCHANGED history_file
    ELSE history_file' = content /\ UNCHANGED rates_file

\* the functions a thread may call on a file: the methods of
\* DatabaseManager, and in the thread of the commands the resolver's
\* load_json_data and save_json_data of rates.json
OpsOn(t, f) ==
    {"read_data", "write_data", "atomic_update"}
    \cup (IF t = "foreground" /\ f = "rates.json"
          THEN {"load_json_data", "save_json_data"} ELSE {})

FirstPc(op) ==
    CASE op = "load_json_data" -> "load"
      [] op = "save_json_data" -> "open"
      [] OTHER -> "acquire"

\* the thread leaves the function it called, by return or by raise
Leave(fr, exc) == [fr EXCEPT !.pc = "done", !.inner = "", !.exc = exc]

\* a thread calls a function on a file
Call(t, op, f) ==
    /\ threads[t].pc \in {"idle", "done"}
    /\ op \in OpsOn(t, f)
    /\ threads' = [threads EXCEPT ![t] =
                      [IdleThread EXCEPT !.op = op, !.file = f, !.pc = FirstPc(op),
                                         !.data = WrittenData(f)]]
    /\ UNCHANGED <<now, rates_file, history_file, rates, result, upd, req, report,
                   saved, locks, tmp_file, serviceVars>>

\* what no step of a thread inside a function of the store changes
callerVars == <<now, rates, result, upd, req, report, saved, serviceVars>>

\* "with file_lock:" is entered.  threading.Lock is not reentrant: a thread
\* that holds the lock waits here like any other.  atomic_update, once inside
\* its own "with", calls read_data
Acquire(t) ==
    LET fr == threads[t]
    IN /\ fr.pc = "acquire"
       /\ locks[fr.file] = Free
       /\ locks' = [locks EXCEPT ![fr.file] = t]
       /\ threads' = [threads EXCEPT ![t] =
             CASE Method(fr) = "atomic_update" -> [fr EXCEPT !.inner = "read_data"]
               [] Method(fr) = "read_data" -> [fr EXCEPT !.pc = "read"]
               [] OTHER -> [fr EXCEPT !.pc = "tmp_open"]]
       /\ UNCHANGED <<callerVars, rates_file, history_file, tmp_file>>

\* read_data lines 61-71, and the end of its "with"; called by atomic_update
\* it is followed by update_func and write_data
Read(t) ==
    LET fr == threads[t]
        seen == [fr EXCEPT !.saw = FileOf(fr.file)]
    IN /\ fr.pc = "read"
       /\ locks' = [locks EXCEPT ![fr.file] = Free]
       /\ threads' = [threads EXCEPT ![t] =
             IF ~read_data(FileOf(fr.file)).ok THEN Leave(seen, "DatabaseError")
             ELSE IF fr.inner = "read_data"
             THEN [seen EXCEPT !.inner = "write_data", !.pc = "acquire"]
             ELSE Leave(seen, "")]
       /\ UNCHANGED <<callerVars, rates_file, history_file, tmp_file>>

\* the handler of write_data lines 102-103 with the removal left out
keep_temp(tmp, f) == tmp

\* the handler of write_data lines 102-103: the temporary file is removed
remove_temp(tmp, f) == [tmp EXCEPT ![f] = NoTmp]

\* write_data lines 90-94: makedirs, then the temporary file is opened.  When
\* makedirs raises, temp_path is not yet assigned and the handler itself
\* raises UnboundLocalError at line 102
WriteOpen(t, outcome) ==
    LET fr == threads[t]
    IN /\ fr.pc = "tmp_open"
       /\ CASE outcome = "ok" ->
                 /\ tmp_file' = [tmp_file EXCEPT ![fr.file] = CorruptFile]
                 /\ threads' = [threads EXCEPT ![t] = [fr EXCEPT !.pc = "tmp_dump"]]
                 /\ UNCHANGED locks
            [] outcome = "fail_makedirs" ->
                 /\ threads' = [threads EXCEPT ![t] = Leave(fr, "UnboundLocalError")]
                 /\ locks' = [locks EXCEPT ![fr.file] = Free]
                 /\ UNCHANGED tmp_file
            [] OTHER ->
                 /\ tmp_file' = remove_temp(tmp_file, fr.file)
                 /\ threads' = [threads EXCEPT ![t] = Leave(fr, "DatabaseError")]
                 /\ locks' = [locks EXCEPT ![fr.file] = Free]
       /\ UNCHANGED <<callerVars, rates_file, history_file>>

\* write_data line 95: json.dump into the temporary file
WriteDump(t, outcome) ==
    LET fr == threads[t]
    IN /\ fr.pc = "tmp_dump"
       /\ IF outcome = "ok"
          THEN /\ tmp_file' = [tmp_file EXCEPT ![fr.file] = fr.data]
               /\ threads' = [threads EXCEPT ![t] = [fr EXCEPT !.pc = "replace"]]
               /\ UNCHANGED locks
          ELSE /\ tmp_file' = remove_temp(tmp_file, fr.file)
               /\ threads' = [threads EXCEPT ![t] = Leave(fr, "DatabaseError")]
               /\ locks' = [locks EXCEPT ![fr.file] = Free]
       /\ UNCHANGED <<callerVars, rates_file, history_file>>

\* write_data line 98: os.replace(temp_path, file_path)
WriteReplace(t, outcome) ==
    LET fr == threads[t]
    IN /\ fr.pc = "replace"
       /\ IF outcome = "ok"
          THEN /\ SetFile(fr.file, tmp_file[fr.file])
               /\ tmp_file' = [tmp_file EXCEPT ![fr.file] = NoTmp]
               /\ threads' = [threads EXCEPT ![t] = Leave(fr, "")]
          ELSE /\ UNCHANGED <<rates_file, history_file>>
               /\ tmp_file' = remove_temp(tmp_file, fr.file)
               /\ threads' = [threads EXCEPT ![t] = Leave(fr, "DatabaseError")]
       /\ locks' = [locks EXCEPT ![fr.file] = Free]
       /\ UNCHANGED callerVars

\* load_json_data: the file is read as it is at this moment, under no lock
Load(t) ==
    LET fr == threads[t]
    IN /\ fr.pc = "load"
       /\ threads' = [threads EXCEPT ![t] =
                         Leave([fr EXCEPT !.saw = FileOf(fr.file)], "")]
       /\ UNCHANGED <<callerVars, rates_file, history_file, locks, tmp_file>>

\* save_json_data lines 19-21: makedirs, then open(file_path, 'w') empties
\* the file itself
SaveOpen(t, outcome) ==
    LET fr == threads[t]
    IN /\ fr.pc = "open"
       /\ IF outcome = "ok"
          THEN /\ SetFile(fr.file, save_json_data(FileOf(fr.file), fr.data.data,
                                                  "fail_partial"))
               /\ threads' = [threads EXCEPT ![t] = [fr EXCEPT !.pc = "dump"]]
          ELSE /\ SetFile(fr.file, save_json_data(FileOf(fr.file), fr.data.data,
                                                  "fail_before"))
               /\ threads' = [threads EXCEPT ![t] = Leave(fr, "OSError")]
       /\ UNCHANGED <<callerVars, locks, tmp_file>>

\* save_json_data line 22: json.dump into the file
SaveDump(t, outcome) ==
    LET fr == threads[t]
    IN /\ fr.pc = "dump"
       /\ IF outcome = "ok"
          THEN /\ SetFile(fr.file, save_json_data(FileOf(fr.file), fr.data.data, "ok"))
               /\ threads' = [threads EXCEPT ![t] = Leave(fr, "")]
          ELSE /\ UNCHANGED <<rates_file, history_file>>
               /\ threads' = [threads EXCEPT ![t] = Leave(fr, "OSError")]
       /\ UNCHANGED <<callerVars, locks, tmp_file>>

\* the steps of one thread
ThreadStep(t) ==
    \/ \E f \in StoreFiles : \E op \in OpsOn(t, f) : Call(t, op, f)
    \/ Acquire(t)
    \/ Read(t)
    \/ \E outcome \in {"ok", "fail_makedirs", "fail_open"} : WriteOpen(t, outcome)
    \/ \E outcome \in WriteOutcomes : WriteDump(t, outcome)
    \/ \E outcome \in WriteOutcomes : WriteReplace(t, outcome)
    \/ Load(t)
    \/ \E outcome \in WriteOutcomes : SaveOpen(t, outcome)
    \/ \E outcome \in WriteOutcomes : SaveDump(t, outcome)

\* the samples given to save_historical_record: a source's rates of some
\* of the pairs
HistoryPairs == {RateKey("EUR", BASE_CURRENCY), RateKey("BTC", BASE_CURRENCY)}

HistorySamples ==
    {m \in PartialMaps(HistoryPairs, {92}) :
        DOMAIN m # {RateKey("BTC", BASE_CURRENCY)}}

\* a thread calls save_historical_record(fetched, source): lines 43-45 read
\* the clock
HistCall(t, fetched, source) ==
    /\ threads[t].pc \in {"idle", "done"}
    /\ threads' = [threads EXCEPT ![t] =
                      [IdleThread EXCEPT !.op = "save_historical_record",
                                         !.file = "exchange_rates.json",
                                         !.pc = "hist_read", !.rates = fetched,
                                         !.source = source, !.at = now]]
    /\ UNCHANGED <<callerVars, rates_file, history_file, locks, tmp_file>>

\* save_historical_record lines 47-72: read_data, under the lock of the file
\* from its first line to its last, then the loop; it returns 0 without a
\* write when the loop appended nothing
HistRead(t) ==
    LET fr == threads[t]
        read == read_data(history_file)
        historical_data == IF read.ok /\ read.kind = "list" THEN read.data ELSE <<>>
        appended == AppendRecords(historical_data, Keys(fr.rates), 1, fr.rates,
                                  fr.source, fr.at)
        saved_count == Len(appended) - Len(historical_data)
    IN /\ fr.pc = "hist_read"
       /\ locks[fr.file] = Free
       /\ threads' = [threads EXCEPT ![t] =
             IF ~read.ok THEN Leave(fr, "DatabaseError")
             ELSE IF saved_count = 0 THEN Leave(fr, "")
             ELSE [fr EXCEPT !.pc = "hist_write", !.data = ListFile(appended),
                             !.count = saved_count]]
       /\ UNCHANGED <<callerVars, rates_file, history_file, locks, tmp_file>>

\* save_historical_record line 73: write_data, under the lock of the file from
\* its first line to its last, replaces the file or leaves it as it is
HistWrite(t, outcome) ==
    LET fr == threads[t]
    IN /\ fr.pc = "hist_write"
       /\ locks[fr.file] = Free
       /\ history_file' = write_data(history_file, fr.data, outcome)
       /\ threads' = [threads EXCEPT ![t] =
             IF outcome = "ok" THEN Leave([fr EXCEPT !.data = MissingFile], "")
             ELSE Leave([fr EXCEPT !.data = MissingFile, !.count = 0],
                        "DatabaseError")]
       /\ UNCHANGED <<callerVars, rates_file, locks, tmp_file>>

\* the steps of a thread that saves samples to the history
HistStep(t) ==
    \/ \E fetched \in HistorySamples, source \in clients : HistCall(t, fetched, source)
    \/ HistRead(t)
    \/ \E outcome \in WriteOutcomes : HistWrite(t, outcome)

\* what data/rates.json may hold when the program starts: nothing, text that
\* is not JSON, an entry the resolver wrote, such an entry with a defective
\* "updated_at", an entry a coordinator wrote
StoredRates(updated_at) ==
    DictFile((RateKey("USD", "EUR") :> Entry(85, updated_at, NoSource))
             @@ (RateKey("EUR", "USD") :> Entry(92, 0, "exchangerate")))

InitRatesFiles == {MissingFile, CorruptFile, StoredRates(0)}

\* the same, and the resolver's entry with each defect of "updated_at"
InitResolverFiles == InitRatesFiles \cup {StoredRates(NoTs), StoredRates(BadTs)}

InitWith(files) ==
    /\ now = 0
    /\ rates_file \in files
    /\ history_file = MissingFile
    /\ rates = load_rates(rates_file)
    /\ result = NoResult
    /\ upd = IdleFrame
    /\ req = NoRequest
    /\ report = NoReport
    /\ saved = NoSaved
    /\ locks = [f \in StoreFiles |-> Free]
    /\ tmp_file = [f \in StoreFiles |-> NoTmp]
    /\ threads = [t \in Threads |-> IdleThread]
    /\ status = NoStatus
    /\ sched = NoScheduler
    /\ quote = NoQuote
    /\ portfolio = NoPortfolio

\* the choices that matter to a response: the handler of a body that is not
\* JSON, the outcomes of the writes that follow a body
HandlersFor(resp) ==
    IF resp.kind = "bad_json" THEN JsonErrorHandlers ELSE {"ValueError"}

OutcomesFor(resp) ==
    IF resp.kind = "ok" THEN WriteOutcomes ELSE {"ok"}

\* the calls of the resolver
Resolver ==
    \/ \E from \in QueryCodes, to \in QueryCodes : GetRate(from, to)
    \/ \E from \in {"USD", "usd"}, to \in {"EUR"}, rate \in SourceRates,
          outcome \in SaveOutcomes :
             UpdateRate(from, to, rate, outcome)

\* the steps of one coordinator
Updater ==
    \/ \E sources \in SourceLists : RunUpdate(sources)
    \/ UnknownSource
    \/ BeginFetch
    \/ /\ upd.pc = "request"
       /\ \E resp \in Responses(upd.sources[upd.i]) :
             \E json_handler \in HandlersFor(resp), w1 \in OutcomesFor(resp),
                w2 \in OutcomesFor(resp) :
                   Attempt(resp, json_handler, w1, w2)
    \/ Finish

Clock(times) == \E t \in times : Tick(t)

\* the resolver alone: its cache is loaded once, when it is constructed, and
\* no step of a coordinator reads or writes it
NextResolver == Resolver \/ Clock(TimePoints)

SpecResolver == InitWith(InitResolverFiles) /\ [][NextResolver]_vars

\* one run of a coordinator, as the update-rates command starts it
NextUpdater == Updater \/ Clock(UpdateTimes)

SpecUpdater == InitWith(InitRatesFiles) /\ [][NextUpdater]_vars

\* RatesStorage.save_current_rates(fetched, source) as one call, between two
\* calls of the resolver
SaveCurrentRates(fetched, source, outcome) ==
    LET c == save_current_rates(rates_file, fetched, source, now, outcome)
    IN /\ rates_file' = c.file
       /\ saved' = SavedCall(fetched, source, now, c)
       /\ UNCHANGED <<now, history_file, rates, result, upd, req, report,
                      storeVars, serviceVars>>

\* what fetch_rates of a client can return
FetchedMaps(source_name) ==
    {fetch_rates(source_name, b).rates :
        b \in {x \in Bodies(source_name) : fetch_rates(source_name, x).exc = ""}}

CacheCodes == {"USD", "EUR"}

\* the calls of the resolver on the pairs the coordinator also writes
CacheResolver ==
    \/ \E from \in CacheCodes, to \in CacheCodes : GetRate(from, to)
    \/ \E rate \in SourceRates, outcome \in SaveOutcomes :
          UpdateRate("EUR", "USD", rate, outcome)

CacheWrite ==
    \E fetched \in FetchedMaps("exchangerate"), outcome \in WriteOutcomes :
       SaveCurrentRates(fetched, "exchangerate", outcome)

\* a resolver that was constructed when the process started, and the cache
\* writes of coordinators that run after it, one call at a time
NextCache == CacheResolver \/ CacheWrite \/ Clock(UpdateTimes)

SpecCache == InitWith(InitRatesFiles) /\ [][NextCache]_vars

\* the threads of one process on the files of the store, which start with
\* well-formed content
InitStoreFiles == {MissingFile, StoredRates(0)}

NextStore == \E t \in Threads : ThreadStep(t)

SpecStore == InitWith(InitStoreFiles) /\ [][NextStore]_vars

\* the same with a scheduler that lets no thread wait forever for a step it
\* can take again and again
\* the scheduler's run and a run of the update-rates command saving their
\* samples to the history, each at its own pace
NextHistory == (\E t \in Threads : HistStep(t)) \/ Clock(UpdateTimes)

SpecHistory == InitWith({MissingFile}) /\ [][NextHistory]_vars

\* the status query between cache writes of a coordinator, on a file that
\* starts missing, unreadable, or with entries with and without a usable
\* "updated_at"
NextStatus ==
    \/ \E sample_rate \in SampleRates(rates_file) : GetUpdateStatus(sample_rate)
    \/ CacheWrite
    \/ Clock(TimePoints \cup {rates_ttl + 1})

SpecStatus == InitWith(InitResolverFiles) /\ [][NextStatus]_vars

\* a ParserScheduler, the thread that calls start_scheduler and
\* stop_scheduler, and the loop thread
NextScheduler ==
    \/ StartScheduler
    \/ StopBegin
    \/ \E outcome \in {"returned", "timeout"} : StopJoin(outcome)
    \/ LoopExit
    \/ LoopEnter
    \/ \E outcome \in {"ok", "raise"} : RunPending(outcome)
    \/ JobRunUpdate
    \/ JobStep
    \/ JobReturn
    \/ JobRaise
    \/ LoopSleep
    \/ IntervalElapsed

SpecScheduler == InitWith({MissingFile}) /\ [][NextScheduler]_vars

\* the two clients called on their own, each against every market
NextQuotes ==
    \E source_name \in clients,
       price \in [CRYPTO_CURRENCIES \cup FIAT_CURRENCIES -> MarketPrices] :
          FetchRates(source_name, price)

SpecQuotes == InitWith({MissingFile}) /\ [][NextQuotes]_vars

\* the deposits and withdrawals of one user
NextWallet ==
    \/ \E code \in WalletCodes, amount \in Amounts, outcome \in SaveOutcomes :
          DepositToWallet(code, amount, outcome)
    \/ \E code \in WalletCodes, amount \in Amounts, outcome \in SaveOutcomes :
          WithdrawFromWallet(code, amount, outcome)

SpecWallet == InitWith({MissingFile}) /\ [][NextWallet]_vars

SpecStoreFair == SpecStore /\ \A t \in Threads : SF_vars(ThreadStep(t))

-----------------------------------------------------------------------------
(* The claims about the resolver, under SpecResolver *)

\* the last call of the resolver was get_rate
IsGetRate == result.op = "get_rate"

\* the key of the last call, and of the call a step makes
ResultKey == RateKey(Upper(result.from), Upper(result.to))
NewKey == RateKey(Upper(result'.from), Upper(result'.to))

\* a step that is a get_rate call
GetRateStep == result' # result /\ result'.op = "get_rate"

\* the call a step makes has two registered codes that differ
NewPairValid ==
    /\ Upper(result'.from) \in currency_registry
    /\ Upper(result'.to) \in currency_registry
    /\ Upper(result'.from) # Upper(result'.to)

\* an entry that is past the TTL at time t, or has no usable "updated_at"
StaleAt(entry, t) ==
    \/ entry.updated_at \in {NoTs, BadTs}
    \/ t - entry.updated_at >= rates_ttl

\* C1: a cached entry of a pair (from,to), from # to, whose age is >= TTL or
\* whose updated_at is missing or unparsable is never returned by get_rate:
\* the call leaves by the refresh path, and no entry that get_rate returns for
\* such a pair was stale when it was returned.
C1_StaleNeverServed ==
    /\ [](IsGetRate /\ result.kind = "return" /\ result.path # "identity"
            => ~StaleAt(result.value, result.at))
    /\ [][(GetRateStep /\ NewPairValid /\ Has(rates, NewKey)
             /\ StaleAt(rates[NewKey], now))
          => /\ result'.path = "refresh"
             /\ ~(result'.kind = "return" /\ result'.value = rates[NewKey])]_vars

\* C1: get_rate was called for a pair whose cached entry had a good timestamp
\* and was past the TTL
C1_Witness ==
    /\ IsGetRate
    /\ result.path = "refresh"
    /\ Has(rates, ResultKey)
    /\ rates[ResultKey].updated_at >= 0
    /\ result.at - rates[ResultKey].updated_at >= rates_ttl

\* C2: when (from,to) is absent from the cache or stale and the fallback table
\* has (from,to), get_rate returns the fallback entry and stores it in the
\* cache, so that the same call repeated at once is served from the cache.
C2_FallbackStored ==
    [][(GetRateStep /\ NewPairValid /\ ~IsFresh(rates, NewKey, now)
          /\ Has(stub_rates, NewKey))
       => /\ result'.kind = "return"
          /\ result'.value = Entry(stub_rates[NewKey], now, NoSource)
          /\ rates' = Put(rates, NewKey, result'.value)
          /\ get_rate(rates', result'.from, result'.to, now').path = "hit"
          /\ get_rate(rates', result'.from, result'.to, now').value
                = result'.value]_vars

\* C4: when neither a fresh cache entry nor the fallback table, direct or
\* inverse, supplies (from,to), get_rate ends by returning a value that says
\* "unavailable", not by raising an exception.
C4_UnavailableIsReturned ==
    [][(GetRateStep /\ NewPairValid /\ ~IsFresh(rates, NewKey, now)
          /\ ~Has(stub_rates, NewKey)
          /\ ~Has(stub_rates, RateKey(NewKey[2], NewKey[1])))
       => result'.kind = "return"]_vars

\* C5: if the cache holds (from,to) with now - updated_at < TTL, get_rate
\* returns exactly that entry by the cache-hit path, without going to the
\* refresh path, and leaves the in-memory cache and the rates file unchanged.
C5_FreshHitFrame ==
    [][(GetRateStep /\ NewPairValid /\ Has(rates, NewKey)
          /\ ~StaleAt(rates[NewKey], now))
       => /\ result'.kind = "return"
          /\ result'.path = "hit"
          /\ result'.value = rates[NewKey]
          /\ rates' = rates
          /\ rates_file' = rates_file]_vars

\* C5: get_rate served an entry from the cache while the file did not hold
\* the cache's content
C5_Witness ==
    /\ IsGetRate
    /\ result.path = "hit"
    /\ result.kind = "return"
    /\ rates_file # DictFile(rates)

\* C6 as stated: for every code A, get_rate(A,A) returns rate 1.0.
C6_IdentityForEveryCode ==
    IsGetRate /\ Upper(result.from) = Upper(result.to)
        => result.kind = "return" /\ result.value.rate = 100

\* C6 as amended: for every registered code A, in any spelling, and every
\* cache state, get_rate(A,A) returns rate 1.0 without a cache lookup, and
\* leaves the cache and the rates file unchanged.
C6_IdentityForRegistered ==
    [][(GetRateStep /\ Upper(result'.from) = Upper(result'.to)
          /\ Upper(result'.from) \in currency_registry)
       => /\ result'.kind = "return"
          /\ result'.path = "identity"
          /\ result'.value.rate = 100
          /\ rates' = rates
          /\ rates_file' = rates_file]_vars

\* C6: get_rate("usd", "USD") returned on a cache that is not empty
C6_Witness ==
    /\ IsGetRate
    /\ result.from = "usd" /\ result.to = "USD"
    /\ result.kind = "return"
    /\ rates # EmptyMap

-----------------------------------------------------------------------------
(* The claims about the updater, under SpecUpdater *)

\* the number of places of seq that hold x
Occurs(seq, x) == Cardinality({j \in 1..Len(seq) : seq[j] = x})

\* the error string msg begins with "<source_name>: "
BeginsWith(msg, source_name) ==
    Len(msg) >= 2 /\ msg[1] = source_name /\ msg[2] = ": "

\* the places of the report's errors that belong to source_name
ErrorsOf(source_name) ==
    {j \in 1..Len(report.errors) : BeginsWith(report.errors[j], source_name)}

\* source_name was asked for and none of its fetches raised: what errors it
\* has name the file whose reading or writing failed
FetchSucceeded(source_name) ==
    /\ Occurs(upd.sources, source_name) >= 1
    /\ \A j \in ErrorsOf(source_name) :
          /\ Len(report.errors[j]) = 5
          /\ report.errors[j][5] \in {"rates.json", "exchange_rates.json"}

\* source_name was asked for once and its fetch raised ApiRequestError
FetchFailed(source_name) ==
    /\ Occurs(upd.sources, source_name) = 1
    /\ \E j \in ErrorsOf(source_name) :
          report.errors[j] = <<source_name, ": ", "ApiRequestError">>

\* the reading or writing of the rates file failed under source_name
CacheWriteFailed(source_name) ==
    \E j \in ErrorsOf(source_name) :
        /\ Len(report.errors[j]) = 5
        /\ report.errors[j][5] = "rates.json"

\* every rate of fetched is in the rates file with the fetched value
InCache(fetched) ==
    \A k \in DOMAIN fetched :
        /\ rates_file.kind = "dict"
        /\ Has(rates_file.data, k)
        /\ rates_file.data[k].rate = fetched[k]

\* run_update returned after S1's fetch succeeded and S2's fetch failed
PartialRun(S1, S2) ==
    /\ upd.pc = "returned"
    /\ report.returned
    /\ S1 # S2
    /\ FetchSucceeded(S1)
    /\ FetchFailed(S2)

\* what C7 promises of such a run
PartialDurable(S2) ==
    /\ report.success = FALSE
    /\ Cardinality(ErrorsOf(S2)) = 1
    /\ Len(report.sources_processed) + Len(report.errors) = Len(upd.sources)
    /\ InCache(upd.all_rates)

C8_UnknownSource ==
    /\ [](upd.pc = "returned" /\ upd.sources = <<"unknown_source">>
            => /\ report.returned
               /\ report.success = FALSE
               /\ report.errors = << <<"Unknown source: ", "unknown_source">> >>
               /\ report.total_rates = 0)
    /\ [][(/\ upd.pc = "loop"
           /\ upd.i <= Len(upd.sources)
           /\ upd.sources[upd.i] \notin clients
           /\ upd' # upd)
          => /\ upd'.errors = Append(upd.errors,
                                     <<"Unknown source: ", upd.sources[upd.i]>>)
             /\ upd'.pc = "loop"
             /\ upd'.i = upd.i + 1
             /\ upd'.sources = upd.sources
             /\ upd'.all_rates = upd.all_rates
             /\ upd'.total_rates = upd.total_rates
             /\ upd'.sources_processed = upd.sources_processed
             /\ req'.calls = 0
             /\ rates_file' = rates_file
             /\ history_file' = history_file]_vars

\* C8: an unknown source came first and the client after it was processed
C8_Witness ==
    /\ upd.pc = "returned"
    /\ upd.sources = <<"unknown_source", "coingecko">>
    /\ report.sources_processed = <<"coingecko">>
    /\ report.errors = << <<"Unknown source: ", "unknown_source">> >>

\* C9: in every report run_update returns, success is true exactly when the
\* list of errors is empty.
C9_SuccessIffNoErrors ==
    report.returned => (report.success <=> (report.errors = <<>>))

\* C9: a report with a processed source and an error
C9_Witness ==
    /\ report.returned
    /\ report.errors # <<>>
    /\ report.sources_processed # <<>>
    /\ report.success = FALSE

\* C10: _make_request makes at most MAX_RETRIES attempts; a timeout on an
\* attempt that is not the last waits RETRY_DELAY and tries again; a timeout
\* on the last attempt raises ApiRequestError without a wait; the call ends
\* after at most MAX_RETRIES attempts, each pass of the loop being an attempt.
C10_BoundedRetries ==
    /\ [](req.calls <= MAX_RETRIES)
    /\ [](upd.pc = "request" => req.calls < MAX_RETRIES)
    /\ [][upd.pc = "request" /\ <<upd, req>>' # <<upd, req>>
          => /\ req'.calls = req.calls + 1
             /\ (req'.last = "timeout" /\ req'.calls < MAX_RETRIES
                   => /\ upd'.pc = "request"
                      /\ req'.ended = "pending"
                      /\ req'.wait = RETRY_DELAY)
             /\ (req'.last = "timeout" /\ req'.calls = MAX_RETRIES
                   => /\ upd'.pc = "loop"
                      /\ req'.ended = "raised"
                      /\ req'.wait = 0
                      /\ upd'.errors
                           = Append(upd.errors, <<upd.sources[upd.i], ": ",
                                                  "ApiRequestError">>))]_vars

\* C10: the last of MAX_RETRIES attempts timed out and the call raised
C10_Witness ==
    /\ req.calls = MAX_RETRIES
    /\ req.last = "timeout"
    /\ req.ended = "raised"
    /\ req.wait = 0

\* a step that is one pass of the loop of _make_request
RequestPass == upd.pc = "request" /\ <<upd, req>>' # <<upd, req>>

\* the pass ended the call with ApiRequestError, which run_update recorded
PassRaised ==
    /\ req'.ended = "raised"
    /\ req'.wait = 0
    /\ upd'.pc = "loop"
    /\ upd'.errors = Append(upd.errors,
                            <<upd.sources[upd.i], ": ", "ApiRequestError">>)

\* C11: on an HTTP 429 _make_request waits 2 x RETRY_DELAY and makes another
\* attempt; the attempts of one call, whatever they ended in, never exceed
\* MAX_RETRIES; a 429 on the last attempt ends the call with ApiRequestError.
C11_RateLimitRetry ==
    /\ [](req.calls <= MAX_RETRIES /\ (req.ended = "pending" => req.calls < MAX_RETRIES))
    /\ [][RequestPass /\ req'.last = "http429"
          => /\ req'.calls = req.calls + 1
             /\ (req'.calls < MAX_RETRIES
                   => /\ upd'.pc = "request"
                      /\ req'.ended = "pending"
                      /\ req'.wait = 2 * RETRY_DELAY)
             /\ (req'.calls = MAX_RETRIES => PassRaised)]_vars

\* C11: the attempt before the last got a 429 and the call waits to retry
C11_Witness ==
    /\ req.last = "http429"
    /\ req.ended = "pending"
    /\ req.calls = MAX_RETRIES - 1
    /\ req.wait = 2 * RETRY_DELAY

\* C12: an HTTP error status other than 429, and a response body that is not
\* JSON, end the call with ApiRequestError on that attempt, with no wait and
\* no further attempt, however many attempts remain.
C12_FailsAtOnce ==
    [][RequestPass /\ req'.last \in {"http_error", "bad_json"}
       => PassRaised /\ req'.calls = req.calls + 1]_vars

\* the run_update step that ended a pass over a client, and what it recorded
FetchEnded == RequestPass /\ upd'.pc = "loop"
FetchReturnedMapping ==
    Len(upd'.errors) = Len(upd.errors)
    \/ (/\ Len(upd'.errors) = Len(upd.errors) + 1
        /\ Len(upd'.errors[Len(upd'.errors)]) = 5
        /\ upd'.errors[Len(upd'.errors)][5] \in {"rates.json", "exchange_rates.json"})
FetchRaisedApiError ==
    upd'.errors = Append(upd.errors, <<upd.sources[upd.i], ": ", "ApiRequestError">>)

\* C13: whatever the upstream answers, a client's fetch_rates ends by
\* returning a mapping of pairs to rates or by raising ApiRequestError, never
\* by raising an error of another kind.
C13_MappingOrApiError ==
    [][FetchEnded => FetchReturnedMapping \/ FetchRaisedApiError]_vars

-----------------------------------------------------------------------------
(* The claims about the store, under SpecStore and SpecStoreFair *)

\* the thread has the file open, or is inside a "with file_lock" on it
Accessing(t, f) ==
    /\ threads[t].file = f
    /\ threads[t].pc \in {"read", "tmp_open", "tmp_dump", "replace", "dump"}

\* C16: no reader of the rates store ever sees a partly written file: what a
\* read finds on the disk is the whole content before or after a write, for
\* every writer of the file (the files start well-formed and every writer
\* writes well-formed content, so a read never finds text that is not JSON).
C16_NoPartialRead ==
    \A t \in Threads :
        threads[t].file = "rates.json" => threads[t].saw.kind # "corrupt"

\* C17: the accesses to a file of the store are serialized by the store's
\* lock: no two threads are inside an access to the same file at once.
C17_SerializedPerFile ==
    \A f \in StoreFiles : \A t1 \in Threads, t2 \in Threads :
        t1 # t2 => ~(Accessing(t1, f) /\ Accessing(t2, f))

\* the file named f after a step
NewFileOf(f) == IF f = "rates.json" THEN rates_file' ELSE history_file'

\* a step of thread t inside the body of write_data
WriteStep(t) ==
    /\ threads[t].pc \in {"tmp_open", "tmp_dump", "replace"}
    /\ threads'[t] # threads[t]

\* C18: write_data is all-or-nothing: a step of it that fails (makedirs, the
\* writing of the temporary file, the swap) leaves the file with the content
\* it had and leaves no temporary file; no step before the swap changes the
\* file; the swap leaves the file with exactly the new content.
C18_WriteAllOrNothing ==
    [][\A t \in Threads : WriteStep(t) =>
          LET f == threads[t].file
          IN /\ (threads'[t].pc # "done" => NewFileOf(f) = FileOf(f))
             /\ (threads'[t].pc = "done" /\ threads'[t].exc # ""
                   => NewFileOf(f) = FileOf(f) /\ tmp_file'[f] = NoTmp)
             /\ (threads'[t].pc = "done" /\ threads'[t].exc = ""
                   => NewFileOf(f) = threads[t].data /\ tmp_file'[f] = NoTmp)]_vars

\* C18: a write_data on rates.json failed after it was given new content, and
\* the file still holds what it held
C18_Witness ==
    \E t \in Threads :
        /\ threads[t].op = "write_data"
        /\ threads[t].file = "rates.json"
        /\ threads[t].pc = "done"
        /\ threads[t].exc = "DatabaseError"
        /\ threads[t].data # rates_file
        /\ rates_file = StoredRates(0)
        /\ tmp_file["rates.json"] = NoTmp

\* C19: every call of atomic_update terminates: a thread that is inside
\* atomic_update leaves it.
C19_AtomicUpdateReturns ==
    \A t \in Threads :
        (threads[t].op = "atomic_update" /\ threads[t].pc # "done")
            ~> (threads[t].pc = "done")

-----------------------------------------------------------------------------
(* The claims about the cache file and its two writers, under SpecCache *)

\* a step that is a call of update_rate that returned
UpdateRateStep ==
    result' # result /\ result'.op = "update_rate" /\ result'.kind = "return"

\* a step that is a call of save_current_rates that wrote the file
CacheWriteStep == saved' # saved /\ saved'.wrote /\ saved'.exc = ""

\* the entries of the file under the keys outside written are as they were
OthersKept(written) ==
    /\ rates_file'.kind = "dict"
    /\ \A k \in DOMAIN rates_file.data \ written :
          Has(rates_file'.data, k) /\ rates_file'.data[k] = rates_file.data[k]

\* C14: no write to the rates cache is lost: a write to one pair, by a
\* coordinator's merge or by the resolver's update_rate, never reverts or
\* removes the stored entry of a different pair.
C14_NoLostWrite ==
    [][/\ (UpdateRateStep /\ rates_file.kind = "dict") => OthersKept({NewKey})
       /\ (CacheWriteStep /\ rates_file.kind = "dict")
              => OthersKept(DOMAIN saved'.rates)]_vars

\* the file holds, for the pair of the call a step makes, the entry that the
\* last completed cache write of a coordinator gave that pair, still fresh
CoordinatorWrote ==
    /\ saved.called /\ saved.exc = "" /\ Has(saved.rates, NewKey)
    /\ rates_file.kind = "dict" /\ Has(rates_file.data, NewKey)
    /\ rates_file.data[NewKey].rate = saved.rates[NewKey]
    /\ rates_file.data[NewKey].source = saved.source
    /\ ~StaleAt(rates_file.data[NewKey], now)

\* C15: after a coordinator's cache write of a pair has completed, every
\* later get_rate of that pair on a resolver that was constructed before it
\* returns the value that was written.
C15_ReadAfterWrite ==
    [][(GetRateStep /\ NewPairValid /\ CoordinatorWrote)
          => /\ result'.kind = "return"
             /\ result'.value = rates_file.data[NewKey]]_vars

\* what save_current_rates takes the file to hold
StoredBefore == IF rates_file.kind = "dict" THEN rates_file.data ELSE EmptyMap

\* the fetched pairs of the call a step makes that are new, or stored with
\* another source, or stored with another rate
Qualifying ==
    {k \in DOMAIN saved'.rates :
        \/ ~Has(StoredBefore, k)
        \/ StoredBefore[k].source # saved'.source
        \/ StoredBefore[k].rate # saved'.rates[k]}

\* C20: save_current_rates rewrites the entry of a pair only if the pair is
\* new, or its stored source differs, or its stored rate differs; every other
\* entry keeps its rate, updated_at and source; the count it returns is the
\* number of entries rewritten; when no entry qualifies it does not write.
C20_RewritesOnlyChanged ==
    [][saved' # saved =>
          /\ Qualifying = {} => ~saved'.wrote /\ rates_file' = rates_file
          /\ saved'.exc # "" => rates_file' = rates_file
          /\ saved'.exc = "" =>
                /\ saved'.count = Cardinality(Qualifying)
                /\ saved'.wrote <=> Qualifying # {}
                /\ Qualifying # {} =>
                      /\ rates_file'.kind = "dict"
                      /\ DOMAIN rates_file'.data
                            = DOMAIN StoredBefore \cup Qualifying
                      /\ \A k \in Qualifying :
                            rates_file'.data[k]
                               = Entry(saved'.rates[k], now, saved'.source)
                      /\ \A k \in DOMAIN StoredBefore \ Qualifying :
                            rates_file'.data[k] = StoredBefore[k]]_vars

\* a call that was given pairs and rewrote none of them: the file still holds
\* an entry of the call's source that is older than the call
C20_Witness ==
    /\ saved.called /\ saved.exc = "" /\ saved.count = 0 /\ ~saved.wrote
    /\ rates_file.kind = "dict"
    /\ \E k \in DOMAIN saved.rates :
          /\ Has(rates_file.data, k)
          /\ rates_file.data[k].source = saved.source
          /\ rates_file.data[k].rate = saved.rates[k]
          /\ rates_file.data[k].updated_at < saved.at

-----------------------------------------------------------------------------
(* The claims about the counts of a run, under SpecUpdater *)

StoredAfter == IF rates_file'.kind = "dict" THEN rates_file'.data ELSE EmptyMap

\* the pairs whose stored entry a step changed
ChangedKeys ==
    {k \in DOMAIN StoredAfter :
        ~Has(StoredBefore, k) \/ StoredBefore[k] # StoredAfter[k]}

\* C21: updated_rates counts the cache entries whose stored value was changed
\* during the run, whatever the outcomes of the fetch, the cache write and
\* the history write of each source: every pass of a source adds to it the
\* number of entries the pass changed.
C21_UpdatedCountsChanges ==
    [][upd.pc = "request"
          => upd'.updated_rates - upd.updated_rates = Cardinality(ChangedKeys)]_vars

-----------------------------------------------------------------------------
(* The claims about the history log, under SpecHistory *)

\* no two records of the file have the same id
NoDuplicateIds(file) ==
    file.kind = "list" =>
       \A i \in 1..Len(file.data), j \in 1..Len(file.data) :
          i # j => file.data[i].id # file.data[j].id

\* the records of the file for a pair, a source and a second
RecordsOf(file, rate_key, source, t) ==
    IF file.kind # "list" THEN {}
    ELSE {j \in 1..Len(file.data) :
             /\ file.data[j].from_currency = rate_key[1]
             /\ file.data[j].to_currency = rate_key[2]
             /\ file.data[j].source = source
             /\ file.data[j].timestamp = t}

\* a thread's call of save_historical_record reads the file in this step
HistReadStep(t) ==
    threads[t].pc = "hist_read" /\ threads'[t].pc # "hist_read"

\* every sample of the thread's call is in the file already
AllRecorded(t) ==
    \A k \in DOMAIN threads[t].rates :
       RecordsOf(history_file, k, threads[t].source, threads[t].at) # {}

\* C22: the history log never holds two records with the same id, and a call
\* of save_historical_record whose pairs were already saved for the same
\* source in the same second inserts nothing, returns 0 and does not write:
\* the file still holds exactly one record for each of the pairs.
C22_NoDuplicateRecords ==
    [][/\ NoDuplicateIds(history_file')
       /\ \A t \in Threads :
             (HistReadStep(t) /\ AllRecorded(t)) =>
                /\ threads'[t].pc = "done"
                /\ threads'[t].exc = ""
                /\ threads'[t].count = 0
                /\ history_file' = history_file
                /\ \A k \in DOMAIN threads[t].rates :
                      Cardinality(RecordsOf(history_file', k, threads[t].source,
                                            threads[t].at)) = 1]_vars

\* a call that was given samples returned 0, and the file holds them
C22_Witness ==
    \E t \in Threads :
       /\ threads[t].op = "save_historical_record"
       /\ threads[t].pc = "done" /\ threads[t].exc = "" /\ threads[t].count = 0
       /\ Cardinality(DOMAIN threads[t].rates) = 2
       /\ AllRecorded(t)

\* a thread's call of save_historical_record returns in this step
HistReturnStep(t) ==
    /\ threads[t].pc \in {"hist_read", "hist_write"}
    /\ threads'[t].pc = "done" /\ threads'[t].exc = ""

\* C23: the id of a record is a function of the pair, the source and the UTC
\* second, and two samples share an id only if they agree on all three: when
\* a call of save_historical_record returns, each of its samples is in the
\* log as a record of its pair, its source and its second, whatever other
\* sources have saved for the pair in that second.
C23_SampleOfEachSourceRecorded ==
    [][\A t \in Threads :
          HistReturnStep(t) =>
             \A k \in DOMAIN threads[t].rates :
                RecordsOf(history_file', k, threads[t].source, threads[t].at)
                   # {}]_vars

\* the records of the file before and after a step
HistoryBefore == IF history_file.kind = "list" THEN history_file.data ELSE <<>>
HistoryAfter == IF history_file'.kind = "list" THEN history_file'.data ELSE <<>>

\* C24: the history log is append-only: whatever the sequence and the
\* interleaving of save_historical_record calls, every record that was in
\* the log before a step is in it after the step, with every field unchanged.
C24_AppendOnly ==
    [][\A i \in 1..Len(HistoryBefore) :
          \E j \in 1..Len(HistoryAfter) : HistoryAfter[j] = HistoryBefore[i]]_vars

-----------------------------------------------------------------------------
(* The claims about the values of the cache, under SpecCache *)

\* C28: every entry of the rates cache, in the file and in the resolver's
\* memory, has a strictly positive rate in every reachable state: a rate of
\* zero or less from a source or given to update_rate is never stored.
C28_StoredRatesPositive ==
    /\ \A k \in DOMAIN StoredBefore : StoredBefore[k].rate > 0
    /\ \A k \in DOMAIN rates : rates[k].rate > 0

-----------------------------------------------------------------------------
(* The claims about the validation of the codes, under SpecResolver *)

\* C30: get_rate(from, to) with either code outside the currency registry
\* raises CurrencyNotFoundError before the cache or the fallback is consulted:
\* it leaves by the validation, the cache and the file are unchanged, and this
\* also holds when from == to.
C30_UnknownCodeFailsFast ==
    [][(GetRateStep /\ ~(Upper(result'.from) \in currency_registry
                          /\ Upper(result'.to) \in currency_registry))
          => /\ result'.kind = "raise"
             /\ result'.exc = "CurrencyNotFoundError"
             /\ result'.path = "invalid"
             /\ rates' = rates
             /\ rates_file' = rates_file]_vars

\* a call with the same unregistered code twice was made and raised
C30_Witness ==
    /\ IsGetRate
    /\ result.from = result.to
    /\ Upper(result.from) \notin currency_registry
    /\ result.exc = "CurrencyNotFoundError"

-----------------------------------------------------------------------------
(* The claims about the status query, under SpecStatus *)

\* C29: for every state of the cache get_update_status returns a record with
\* status, total_rates and sources; status is one of fresh, stale, outdated
\* and empty, it is empty exactly when the cache holds no rates, and
\* total_rates is the number of cached pairs.
C29_StatusRecord ==
    [][status' # status =>
          /\ status'.exc = ""
          /\ {"status", "total_rates", "sources"} \subseteq status'.fields
          /\ status'.status \in {"fresh", "stale", "outdated", "empty"}
          /\ status'.status = "empty" <=> DOMAIN StoredBefore = {}
          /\ status'.total_rates = Cardinality(DOMAIN StoredBefore)]_vars

-----------------------------------------------------------------------------
(* The claims about the scheduler, under SpecScheduler *)

\* a step in which the running update raises, or run_pending raises
RaiseStep ==
    \/ sched.pc = "job" /\ upd.pc = "loop" /\ upd'.pc = "idle"
    \/ sched.pc = "pending" /\ sched'.pc = "pause"

\* C25: an exception raised during a scheduled update never ends the loop:
\* the thread stays alive with its job registered, it ends only once the stop
\* event is set, and at the next tick the update is run again.
C25_LoopSurvivesExceptions ==
    [][/\ RaiseStep =>
             /\ sched'.thread = "alive"
             /\ sched'.loops = sched.loops
             /\ sched'.jobs = sched.jobs
             /\ sched'.pc \in {"job", "sleep", "pause"}
       /\ (sched.thread = "alive" /\ sched'.thread # "alive") => sched.stop_event
       /\ (sched.pc = "pending" /\ sched'.pc \notin {"pending", "pause"}
              /\ sched.due /\ sched.jobs > 0)
             => sched'.pc = "job"]_vars

\* an update is running after an earlier one raised
C25_Witness ==
    /\ sched.failed
    /\ sched.pc = "job"
    /\ upd.pc = "request"
    /\ ~sched.stop_event

\* C26: start_scheduler is a no-op while the scheduler is running: no step
\* taken while the thread is alive adds a thread or a job, at most one loop
\* thread is alive and at most one job is registered after any sequence of
\* start_scheduler and stop_scheduler calls, and a tick runs one update.
C26_StartIsNoOpWhileRunning ==
    [][/\ sched'.loops <= 1
       /\ sched'.jobs <= 1
       /\ sched'.ran <= 1
       /\ sched.thread = "alive" =>
             /\ sched'.loops <= sched.loops
             /\ sched'.jobs <= sched.jobs
       /\ (sched.thread = "alive" /\ sched.caller = "idle"
              /\ sched'.last = "already_running" /\ sched.last # "already_running")
             => /\ sched' = [sched EXCEPT !.last = "already_running"]
                /\ upd' = upd]_vars

\* start_scheduler was called while the thread was running its update
C26_Witness ==
    /\ sched.last = "already_running"
    /\ sched.thread = "alive"
    /\ sched.pc = "job"
    /\ sched.ran = 1
    /\ sched.jobs = 1

\* a step of stop_scheduler
StopStep ==
    sched'.caller # sched.caller \/ (sched'.stop_event /\ ~sched.stop_event)

\* C27: stop_scheduler cancels only the loop: its steps leave the running
\* update and the files as they are, also when join times out; an update
\* that has begun always has its live thread inside the job to carry out the
\* rest of its writes; the thread ends only at the head of the loop, and no
\* update begins once it has ended.
C27_StopLeavesCycleRunning ==
    [][/\ StopStep =>
             /\ upd' = upd /\ req' = req
             /\ rates_file' = rates_file /\ history_file' = history_file
             /\ sched'.pc = sched.pc /\ sched'.thread = sched.thread
       /\ upd'.pc # "idle" => (sched'.thread = "alive" /\ sched'.pc = "job")
       /\ (sched'.pc = "exited" /\ sched.pc # "exited") => sched.pc = "check"
       /\ (upd.pc = "idle" /\ upd'.pc # "idle")
             => (sched.thread = "alive" /\ sched.pc = "job")]_vars

\* stop_scheduler was called when the update had processed no source, join
\* timed out, and the update has since processed both sources and returned
C27_Witness ==
    /\ sched.cut = 0
    /\ sched.join = "timeout"
    /\ sched.stop_event
    /\ upd.pc = "returned"
    /\ Len(upd.sources_processed) = 2
    /\ rates_file.kind = "dict"
    /\ history_file.kind = "list"

-----------------------------------------------------------------------------
(* The claims about a store that is not readable, under SpecCache *)

\* C31: corruption of the durable rates store is always surfaced to the
\* caller: a file that is not JSON is never replaced by a later write, and a
\* call that finds it so does not return normally having written over it.
C31_CorruptStoreNotOverwritten ==
    [][rates_file.kind = "corrupt" => rates_file'.kind = "corrupt"]_vars

-----------------------------------------------------------------------------
(* The claims about the passes of the sources, under SpecUpdater *)

\* the pass of the current source ends with an error string
FailedStep ==
    upd.pc = "request" /\ Len(upd'.errors) > Len(upd.errors)

\* the pass of the current source ends with the source processed
ProcessedStep ==
    upd.pc = "request" /\ Len(upd'.sources_processed) > Len(upd.sources_processed)

\* C32: a source is processed all-or-nothing within a run: a source that
\* ends in the errors list, whether its fetch, its cache write or its history
\* write failed, has changed neither the rates file nor the history file.
C32_FailedSourceWroteNothing ==
    [][FailedStep => rates_file' = rates_file /\ history_file' = history_file]_vars

\* C33: once a source is in sources_processed, every pair it returned has an
\* entry of the rates file whose updated_at is the time of the run, which a
\* resolver reading the file then finds fresh, also when the rate is the one
\* already stored.  Stated for the first source of a run that returns rates,
\* whose rates are all of all_rates.
C33_ProcessedPairsFresh ==
    [][(ProcessedStep /\ upd.all_rates = EmptyMap)
          => \A k \in DOMAIN upd'.all_rates :
                /\ Has(StoredAfter, k)
                /\ StoredAfter[k].updated_at = now
                /\ IsFresh(StoredAfter, k, now)]_vars

\* the counts of a frame or of a report
Counts(r) == <<r.total_rates, r.updated_rates, r.historical_records>>

\* C35: every element of the list given to run_update adds one item to
\* exactly one of sources_processed and errors, so that the two lengths add
\* up to the length of the list and sources_count is the length of
\* sources_processed; the three counts grow only with a source that is
\* appended to sources_processed, and updated_rates and historical_records
\* never exceed total_rates.
C35_OneItemPerSource ==
    /\ [](Len(upd.sources_processed) + Len(upd.errors) = upd.i - 1)
    /\ [](report.returned
            => /\ Len(report.sources_processed) + Len(report.errors)
                    = Len(upd.sources)
               /\ report.sources_count = Len(report.sources_processed)
               /\ report.updated_rates <= report.total_rates
               /\ report.historical_records <= report.total_rates
               /\ \A j \in 1..Len(report.sources_processed) :
                     Occurs(upd.sources, report.sources_processed[j]) >= 1)
    /\ [][upd.pc \in {"loop", "request"}
            => /\ upd'.i \in {upd.i, upd.i + 1}
               /\ upd'.i = upd.i + 1
                    => \/ /\ upd'.sources_processed
                               = Append(upd.sources_processed, upd.sources[upd.i])
                          /\ upd'.errors = upd.errors
                       \/ /\ Len(upd'.errors) = Len(upd.errors) + 1
                          /\ upd'.sources_processed = upd.sources_processed
                          /\ Counts(upd') = Counts(upd)
               /\ upd'.i = upd.i => Counts(upd') = Counts(upd)]_vars

\* a run of two sources returned with one processed and one in the errors,
\* and with a rate that was already stored
C35_Witness ==
    /\ report.returned
    /\ Len(upd.sources) = 2
    /\ Len(report.errors) = 1
    /\ Len(report.sources_processed) = 1
    /\ report.updated_rates < report.total_rates

-----------------------------------------------------------------------------
(* The claims about a start after a stop, under SpecScheduler *)

\* the last call of the calling thread was start_scheduler and it has returned
StartReturnedLast ==
    sched.caller = "idle" /\ sched.last \in {"started", "already_running"}

\* C34: when start_scheduler has returned and no stop_scheduler call follows
\* it, a loop thread is running and its job is registered, so that updates
\* are run at every interval; this after every sequence of start and stop
\* calls, a start right after a stop_scheduler whose join timed out during an
\* update included.
C34_StartLeavesLoopRunning ==
    StartReturnedLast => sched.thread = "alive" /\ sched.jobs >= 1

-----------------------------------------------------------------------------
(* The claims about the status and the resolver, under SpecStatus *)

\* a call of get_update_status that returned a record for a cache with rates
StatusOfRatesStep ==
    status' # status /\ status'.exc = "" /\ status'.status # "empty"

\* C36: the status of get_update_status agrees with the resolver's test on
\* the sampled entry: fresh exactly when get_rate would serve the entry from
\* the cache (age < TTL), outdated exactly when the entry has an age and
\* get_rate would not serve it (age >= TTL), the age equal to TTL included.
C36_StatusAgreesWithResolver ==
    [][StatusOfRatesStep
          => /\ status'.status = "fresh"
                  <=> IsFresh(StoredBefore, status'.sample, now)
             /\ status'.status = "outdated"
                  <=> /\ get_rate_freshness(rates_file, status'.sample, now) >= 0
                      /\ ~IsFresh(StoredBefore, status'.sample, now)]_vars

-----------------------------------------------------------------------------
(* The claims about the direction of a pair, under SpecQuotes *)

\* C37: both clients store under the key X_BASE the amount of the base
\* currency that one unit of X costs: the crypto rates of CoinGecko, and the
\* fiat rates of ExchangeRate-API, whose conversion_rates[X] is the amount
\* of X per unit of the base currency.
C37_OneDirection ==
    quote.called
       => \A k \in DOMAIN quote.rates :
             k[1] # BASE_CURRENCY => quote.rates[k] = quote.price[k[1]]

-----------------------------------------------------------------------------
(* The claims about the errors of a write, under SpecStore *)

\* C38: every failure inside write_data, at whichever step it occurs (the
\* creation of the directory, the opening or the writing of the temporary
\* file, the swap), reaches the caller as DatabaseError and as no other
\* exception.
C38_WriteFailsAsDatabaseError ==
    \A t \in Threads :
        threads[t].op = "write_data" /\ threads[t].pc = "done"
           => threads[t].exc \in {"", "DatabaseError"}

-----------------------------------------------------------------------------
(* The claims about the wallets, under SpecWallet *)

\* a call of deposit or withdraw on a wallet that existed
WalletCallStep == portfolio'.n # portfolio.n /\ portfolio'.had

\* the wallet the call was made on has the balance it had
BalanceKept ==
    portfolio'.wallets[portfolio'.code] = portfolio.wallets[portfolio'.code]

\* C39: the balance of a wallet is never negative after any sequence of
\* deposit and withdraw calls; a withdraw of more than the balance raises
\* InsufficientFundsError, a deposit or withdraw of an amount that is not
\* positive raises ValueError, and both leave the balance as it was.
C39_BalanceNeverNegative ==
    /\ [](\A c \in DOMAIN portfolio.wallets : portfolio.wallets[c] >= 0)
    /\ [][WalletCallStep
            => /\ portfolio'.amount <= 0
                    => portfolio'.exc = "ValueError" /\ BalanceKept
               /\ (/\ portfolio'.op = "withdraw"
                   /\ portfolio'.amount > portfolio.wallets[portfolio'.code])
                    => portfolio'.exc = "InsufficientFundsError" /\ BalanceKept]_vars

\* a withdraw of more than a positive balance raised
C39_Witness ==
    /\ portfolio.op = "withdraw"
    /\ portfolio.had
    /\ portfolio.exc = "InsufficientFundsError"
    /\ portfolio.amount = 2
    /\ portfolio.wallets[portfolio.code] = 1

====
